---- MODULE Spec2Model ----
(***************************************************************************)
(* A state-machine model of the export pipeline of the Substack            *)
(* downloader (src-tauri/src/export.rs, substack.rs, utils.rs).            *)
(*                                                                         *)
(* Eight specifications share the variables:                               *)
(*   Spec       one export job (run_export_job), with its fetches          *)
(*   SpecLive   Spec where every awaited call returns                      *)
(*   SpecOrder  order_posts on enumerated post lists                       *)
(*   SpecFetch  fetch_text_with_retries / fetch_bytes_with_retries         *)
(*   SpecNotes  extract_footnotes on enumerated targets and candidates     *)
(*   SpecBody   process_body_for_exports on enumerated bodies              *)
(*   SpecRender render_txt_post and write_epub for one post                *)
(*   SpecStrip  remove_footnote_containers on enumerated markup            *)
(* The variables a specification does not use stay at their idle value.    *)
(***************************************************************************)
EXTENDS Integers, Sequences, FiniteSets, TLC

VARIABLES
    request,      \* the ExportJobRequest of the job
    pc,           \* phase of run_export_job
    error,        \* the error the job ended with ("" while none)
    dir_created,  \* create_dir_all has created the output directory
    selected,     \* result of select_posts
    ordered,      \* result of order_posts
    idx,          \* position of the fetch loop in ordered (1-based, next post)
    succeeded,    \* ExportJobResult.succeeded
    failed,       \* ExportJobResult.failed
    contents,     \* the PostContent values extracted so far
    warnings,     \* ExportJobResult.warnings
    cover_asset,  \* the resolved cover (NoCover when none)
    output_files, \* ExportJobResult.output_files
    files,        \* the files of the output directory
    requests,     \* the fetches issued so far, in order
    fetch,        \* the fetch_*_with_retries call in progress
    ord,          \* inputs and output of one order_posts call
    notes,        \* inputs and output of one extract_footnotes call
    body,         \* input and output of one process_body_for_exports call
    render,       \* inputs and output of one rendering call
    strip         \* input and progress of one remove_footnote_containers call

vars == <<request, pc, error, dir_created, selected, ordered, idx, succeeded,
          failed, contents, warnings, cover_asset, output_files, files,
          requests, fetch, ord, notes, body, render, strip>>

jobVars == <<request, pc, error, dir_created, selected, ordered, idx, succeeded,
             failed, contents, warnings, cover_asset, output_files, files,
             requests>>

------------------------------------------------------------------------------
(* Bounds of the model *)

MaxOrdPosts == 3     \* posts given to order_posts in SpecOrder
MaxManual == 2       \* length of manual_order in SpecOrder
MaxPosts == 2        \* posts of the request in Spec
MaxRetries == 3      \* largest retries argument in SpecFetch
MaxTargets == 3      \* reference targets in SpecNotes
MaxCandidates == 2   \* footnote candidates in SpecNotes
MaxTokens == 4       \* tags and texts of the body in SpecStrip

------------------------------------------------------------------------------
(* Strings are sequences of one-character strings. *)

None == [some |-> FALSE]

Some(v) == [some |-> TRUE, value |-> v]

UpperChars == {"A", "B", "F", "N", "R"}

DigitChars == {"1", "2", "3"}

LowerChars == {"a", "b", "c", "e", "f", "i", "k", "l", "n", "o", "r", "s", "t", "u", "v"}

\* char::to_ascii_lowercase (str::to_lowercase agrees with it on ASCII)
LowerChar(c) ==
    CASE c = "A" -> "a"
      [] c = "B" -> "b"
      [] c = "F" -> "f"
      [] c = "N" -> "n"
      [] c = "R" -> "r"
      [] OTHER -> c

\* The code point of a character: the order str::cmp compares by.
CharCode(c) ==
    CASE c = " " -> 32
      [] c = "#" -> 35
      [] c = "-" -> 45
      [] c = "." -> 46
      [] c = "1" -> 49
      [] c = "2" -> 50
      [] c = "3" -> 51
      [] c = "?" -> 63
      [] c = "A" -> 65
      [] c = "B" -> 66
      [] c = "F" -> 70
      [] c = "N" -> 78
      [] c = "R" -> 82
      [] c = "_" -> 95
      [] c = "a" -> 97
      [] c = "b" -> 98
      [] c = "c" -> 99
      [] c = "e" -> 101
      [] c = "f" -> 102
      [] c = "i" -> 105
      [] c = "k" -> 107
      [] c = "l" -> 108
      [] c = "n" -> 110
      [] c = "o" -> 111
      [] c = "r" -> 114
      [] c = "s" -> 115
      [] c = "t" -> 116
      [] c = "u" -> 117
      [] c = "v" -> 118
      [] OTHER -> 0

to_lowercase(s) == [i \in 1..Len(s) |-> LowerChar(s[i])]

\* Ordering::{Less, Equal, Greater} of two integers (i64::cmp).
IntCmp(a, b) == IF a < b THEN "Less" ELSE IF a > b THEN "Greater" ELSE "Equal"

\* str::cmp: lexicographic by code point, a proper prefix first.
RECURSIVE StrCmp(_, _)
StrCmp(s, t) ==
    IF s = <<>> /\ t = <<>> THEN "Equal"
    ELSE IF s = <<>> THEN "Less"
    ELSE IF t = <<>> THEN "Greater"
    ELSE IF CharCode(Head(s)) # CharCode(Head(t))
         THEN IntCmp(CharCode(Head(s)), CharCode(Head(t)))
         ELSE StrCmp(Tail(s), Tail(t))

\* All sequences over S of length at most n.
SeqsUpTo(S, n) == UNION {[1..k -> S] : k \in 0..n}

\* The arrangements of a finite set: every sequence listing each element once.
Arrangements(S) ==
    {s \in [1..Cardinality(S) -> S] : \A i, j \in 1..Cardinality(S) : i # j => s[i] # s[j]}

------------------------------------------------------------------------------
(* utils.rs: parse_datetime_flexible.  A published_at string is kept by its
   syntactic class and, when it is a well-formed date, the instant it names. *)

PublishedAtValues ==
    { [fmt |-> "junk", ms |-> 0],
      [fmt |-> "rfc3339", ms |-> -1],
      [fmt |-> "rfc2822", ms |-> 1] }

parse_datetime_flexible(value) ==
    IF value.fmt = "rfc3339" THEN Some(value.ms)
    ELSE IF value.fmt = "rfc2822" THEN Some(value.ms)
    ELSE None

unwrap_or(opt, default) == IF opt.some THEN opt.value ELSE default

------------------------------------------------------------------------------
(* export.rs: compare_post_dates, order_posts *)

compare_post_dates_no_lowercase(a, b, sort_direction) ==
    LET a_ts == unwrap_or(parse_datetime_flexible(a.published_at), 0)
        b_ts == unwrap_or(parse_datetime_flexible(b.published_at), 0)
        primary == IF sort_direction = "Desc" THEN IntCmp(b_ts, a_ts) ELSE IntCmp(a_ts, b_ts)
    IN IF primary = "Equal" THEN StrCmp(a.title, b.title) ELSE primary

compare_post_dates(a, b, sort_direction) ==
    LET a_ts == unwrap_or(parse_datetime_flexible(a.published_at), 0)
        b_ts == unwrap_or(parse_datetime_flexible(b.published_at), 0)
        primary == IF sort_direction = "Desc" THEN IntCmp(b_ts, a_ts) ELSE IntCmp(a_ts, b_ts)
    IN IF primary = "Equal"
       THEN StrCmp(to_lowercase(a.title), to_lowercase(b.title))
       ELSE primary

\* One insertion of a stable sort: x, which came after every element of the
\* sorted prefix, goes before the first element that compares Greater than it.
RECURSIVE InsertStable(_, _, _)
InsertStable(sorted, x, sort_direction) ==
    IF sorted = <<>> THEN <<x>>
    ELSE IF compare_post_dates(Head(sorted), x, sort_direction) = "Greater"
         THEN <<x>> \o sorted
         ELSE <<Head(sorted)>> \o InsertStable(Tail(sorted), x, sort_direction)

\* slice::sort_by with compare_post_dates: a stable sort.
RECURSIVE sort_by(_, _)
sort_by(posts, sort_direction) ==
    IF posts = <<>> THEN <<>>
    ELSE InsertStable(sort_by(SubSeq(posts, 1, Len(posts) - 1), sort_direction),
                      posts[Len(posts)], sort_direction)

\* by_id: HashMap<String, PostSummary> collected from the posts; of two posts
\* with one id the later replaces the earlier.
ById(posts) ==
    [id \in {posts[i].id : i \in 1..Len(posts)} |->
        posts[CHOOSE i \in 1..Len(posts) :
                 /\ posts[i].id = id
                 /\ \A j \in 1..Len(posts) : posts[j].id = id => j <= i]]

\* The loop over manual_order: by_id.remove(id) pushes a post once.
RECURSIVE ManualSorted(_, _, _)
ManualSorted(by_id, manual_order, taken) ==
    IF manual_order = <<>> THEN <<>>
    ELSE LET id == Head(manual_order)
         IN IF id \in DOMAIN by_id /\ id \notin taken
            THEN <<by_id[id]>> \o ManualSorted(by_id, Tail(manual_order), taken \cup {id})
            ELSE ManualSorted(by_id, Tail(manual_order), taken)

ManualIds(by_id, manual_order) ==
    {manual_order[i] : i \in 1..Len(manual_order)} \cap DOMAIN by_id

\* order_posts.  `iteration` is the order in which HashMap::into_values yields
\* the posts left in by_id: any arrangement of their ids.
order_posts(posts, order_mode, manual_order, sort_direction, iteration) ==
    IF order_mode = "Manual" /\ manual_order # <<>>
    THEN LET by_id == ById(posts)
             manual_sorted == ManualSorted(by_id, manual_order, {})
             remaining == [i \in 1..Len(iteration) |-> by_id[iteration[i]]]
         IN manual_sorted \o sort_by(remaining, sort_direction)
    ELSE sort_by(posts, sort_direction)

\* The iteration orders into_values may take in this call.
Iterations(posts, order_mode, manual_order) ==
    IF order_mode = "Manual" /\ manual_order # <<>>
    THEN Arrangements(DOMAIN ById(posts) \ ManualIds(ById(posts), manual_order))
    ELSE {<<>>}

------------------------------------------------------------------------------
(* substack.rs: fetch_text_with_retries, fetch_bytes_with_retries.
   One record holds the locals of the call in progress; each attempt is one
   step, its outcome the answer of the network:
     "ok"       the request was answered with a success status and the body read
     "status"   the request was answered with an error status
     "network"  the request could not be sent or answered
     "body"     a success status, and reading the body failed               *)

RETRIES_PER_REQUEST == 3

BaseDelayMs == 350

AttemptOutcomes == {"ok", "status", "network", "body"}

IdleFetch == [status |-> "idle"]

NewFetch(kind, retries) ==
    [status |-> "running", kind |-> kind, retries |-> retries, attempt |-> 0,
     delay_ms |-> BaseDelayMs, last_error |-> None, sleeps |-> <<>>,
     sent |-> 0, returned |-> None]

\* The error of a failed attempt: its kind and the 1-based attempt number the
\* message names.
AttemptError(kind, attempt) == [kind |-> kind, attempt |-> attempt + 1]

BodyError(kind) ==
    [kind |-> IF kind = "text" THEN "Failed reading response body"
              ELSE "Failed reading binary response body",
     attempt |-> 0]

\* A mutant of FetchAttempt: after the last attempt has failed the loop starts
\* again instead of returning last_error.
FetchAttemptStartsAgain(f, outcome) ==
    IF outcome = "ok" THEN [f EXCEPT !.status = "ok", !.sent = @ + 1]
    ELSE IF outcome = "body"
    THEN [f EXCEPT !.status = "err", !.sent = @ + 1, !.returned = Some(BodyError(f.kind))]
    ELSE IF f.attempt + 1 > f.retries
    THEN NewFetch(f.kind, f.retries)
    ELSE [f EXCEPT !.sent = @ + 1,
                   !.last_error = Some(AttemptError(outcome, f.attempt)),
                   !.sleeps = Append(@, f.delay_ms),
                   !.delay_ms = @ * 2,
                   !.attempt = @ + 1]

\* One iteration of `for attempt in 0..=retries`, with what follows the loop
\* when it was the last: a success returns at once (the body read may fail and
\* returns its error at once); a failure records last_error, sleeps delay_ms,
\* doubles it, and after attempt `retries` the call returns last_error.
FetchAttempt(f, outcome) ==
    IF outcome = "ok" THEN [f EXCEPT !.status = "ok", !.sent = @ + 1]
    ELSE IF outcome = "body"
    THEN [f EXCEPT !.status = "err", !.sent = @ + 1, !.returned = Some(BodyError(f.kind))]
    ELSE LET e == AttemptError(outcome, f.attempt)
             done == f.attempt + 1 > f.retries
         IN [f EXCEPT !.sent = @ + 1,
                      !.last_error = Some(e),
                      !.sleeps = Append(@, f.delay_ms),
                      !.delay_ms = @ * 2,
                      !.attempt = @ + 1,
                      !.status = IF done THEN "err" ELSE "running",
                      !.returned = IF done THEN Some(e) ELSE None]

------------------------------------------------------------------------------
(* utils.rs: decode_data_url, media_type_to_extension; export.rs:
   normalize_cover_asset.  Image bytes are kept by what image::guess_format
   reads from their first bytes: "empty" (no byte), the magic of a format
   ("png", "jpeg", "gif", "webp", "bmp"), or "unknown" (no magic).  A data URL
   is kept by the parts decode_data_url looks at.                            *)

NoCover == [present |-> FALSE]

\* An error is kept by its message and, for a failed fetch attempt, the attempt
\* number the message names (0 otherwise).
ErrorOf(msg) == [kind |-> msg, attempt |-> 0]

NoError == ErrorOf("")

Err(msg) == [ok |-> FALSE, error |-> ErrorOf(msg)]

Failure(e) == [ok |-> FALSE, error |-> e]

Ok(v) == [ok |-> TRUE, value |-> v]

decode_data_url(data_url) ==
    IF ~data_url.has_comma THEN Err("Invalid data URL format.")
    ELSE IF ~data_url.base64_suffix THEN Err("Only base64 data URLs are supported.")
    ELSE IF data_url.body = "invalid" THEN Err("Failed to decode base64 cover image.")
    ELSE Ok([bytes |-> data_url.body, mime_type |-> data_url.mime])

media_type_to_extension(media_type) ==
    CASE media_type = "image/jpeg" -> "jpg"
      [] media_type = "image/jpg" -> "jpg"
      [] media_type = "image/png" -> "png"
      [] media_type = "image/gif" -> "gif"
      [] media_type = "image/webp" -> "webp"
      [] OTHER -> "img"

\* image::guess_format(&bytes).ok()
guess_format(bytes) ==
    IF bytes \in {"png", "jpeg", "gif", "webp", "bmp"} THEN Some(bytes) ELSE None

normalize_cover_asset(bytes, mime_hint) ==
    IF bytes = "empty" THEN Err("Cover image bytes are empty.")
    ELSE LET guessed == guess_format(bytes)
             mime == unwrap_or(mime_hint, "image/jpeg")
             hinted == [media_type |-> mime, extension |-> media_type_to_extension(mime)]
             typed ==
                 IF guessed.some
                 THEN CASE guessed.value = "png" -> [media_type |-> "image/png", extension |-> "png"]
                        [] guessed.value = "jpeg" -> [media_type |-> "image/jpeg", extension |-> "jpg"]
                        [] guessed.value = "gif" -> [media_type |-> "image/gif", extension |-> "gif"]
                        [] guessed.value = "webp" -> [media_type |-> "image/webp", extension |-> "webp"]
                        [] OTHER -> hinted
                 ELSE hinted
         IN Ok([present |-> TRUE, bytes |-> bytes,
                media_type |-> typed.media_type, extension |-> typed.extension])

\* resolve_cover in Custom mode (no network).
resolve_cover_custom(req) ==
    IF ~req.custom_cover_data_url.some
    THEN Err("Custom cover mode selected but no file uploaded.")
    ELSE LET decoded == decode_data_url(req.custom_cover_data_url.value)
         IN IF ~decoded.ok THEN decoded
            ELSE normalize_cover_asset(decoded.value.bytes, Some(decoded.value.mime_type))


------------------------------------------------------------------------------
(* utils.rs: sanitize_filename; str::trim *)

IsWhitespace(c) == c = " "

IsAsciiAlphanumeric(c) == c \in UpperChars \cup LowerChars \cup DigitChars

RECURSIVE TrimStartMatches(_, _)
TrimStartMatches(s, cs) ==
    IF s # <<>> /\ Head(s) \in cs THEN TrimStartMatches(Tail(s), cs) ELSE s

RECURSIVE TrimEndMatches(_, _)
TrimEndMatches(s, cs) ==
    IF s # <<>> /\ s[Len(s)] \in cs THEN TrimEndMatches(SubSeq(s, 1, Len(s) - 1), cs) ELSE s

\* str::trim
trim(s) == TrimEndMatches(TrimStartMatches(s, {" "}), {" "})

\* str::replace("  ", " "): non-overlapping matches, left to right.
RECURSIVE ReplaceDoubleSpace(_)
ReplaceDoubleSpace(s) ==
    IF Len(s) < 2 THEN s
    ELSE IF s[1] = " " /\ s[2] = " " THEN <<" ">> \o ReplaceDoubleSpace(SubSeq(s, 3, Len(s)))
    ELSE <<s[1]>> \o ReplaceDoubleSpace(Tail(s))

HasDoubleSpace(s) == \E i \in 1..(Len(s) - 1) : s[i] = " " /\ s[i + 1] = " "

RECURSIVE CollapseSpaces(_)
CollapseSpaces(s) == IF HasDoubleSpace(s) THEN CollapseSpaces(ReplaceDoubleSpace(s)) ELSE s

MaxFilenameChars == 120

sanitize_filename(input) ==
    LET result == [i \in 1..Len(input) |->
                      IF IsAsciiAlphanumeric(input[i]) \/ input[i] \in {"-", "_", " "}
                      THEN input[i] ELSE "_"]
        clean == TrimEndMatches(TrimStartMatches(
                     CollapseSpaces(ReplaceDoubleSpace(trim(result))), {"."}), {"."})
    IN IF clean = <<>> THEN <<"u", "n", "t", "i", "t", "l", "e", "d">>
       ELSE SubSeq(clean, 1, IF Len(clean) < MaxFilenameChars THEN Len(clean) ELSE MaxFilenameChars)

------------------------------------------------------------------------------
(* export.rs: select_posts *)

\* A mutant of select_posts: the filter is dropped in SpecificPosts mode.
select_posts_unfiltered(req) ==
    IF req.mode = "EntireProfile" THEN Ok(req.posts)
    ELSE IF req.selected_post_ids = {} THEN Err("No specific posts selected.")
    ELSE Ok(req.posts)

select_posts(req) ==
    IF req.mode = "EntireProfile" THEN Ok(req.posts)
    ELSE IF req.selected_post_ids = {} THEN Err("No specific posts selected.")
    ELSE Ok(SelectSeq(req.posts, LAMBDA post : post.id \in req.selected_post_ids))

------------------------------------------------------------------------------
(* substack.rs: extract_footnotes and what it calls.  A body fragment is kept
   by the reference targets collect_footnote_target_ids reads from it and by
   the blocks collect_footnote_candidates visits: the form of each block, its
   ids and link targets and its cleaned text.                                          *)

\* str::contains
Contains(s, pat) ==
    \E i \in 0..(Len(s) - Len(pat)) : SubSeq(s, i + 1, i + Len(pat)) = pat

\* str::trim_matches(|ch| !ch.is_ascii_alphanumeric())
RECURSIVE TrimNonAlphanumeric(_)
TrimNonAlphanumeric(s) ==
    IF s = <<>> THEN s
    ELSE IF ~IsAsciiAlphanumeric(Head(s)) THEN TrimNonAlphanumeric(Tail(s))
    ELSE IF ~IsAsciiAlphanumeric(s[Len(s)]) THEN TrimNonAlphanumeric(SubSeq(s, 1, Len(s) - 1))
    ELSE s

TrivialTexts ==
    { <<"b", "a", "c", "k">>,
      <<"r", "e", "t", "u", "r", "n">>,
      <<"b", "a", "c", "k", " ", "t", "o", " ", "c", "o", "n", "t", "e", "n", "t">>,
      <<"r", "e", "t", "u", "r", "n", " ", "t", "o", " ", "a", "r", "t", "i", "c", "l", "e">>,
      <<"r", "e", "t", "u", "r", "n", " ", "t", "o", " ", "c", "o", "n", "t", "e", "n", "t">>,
      <<"s", "e", "e", " ", "a", "b", "o", "v", "e">> }

\* A mutant of is_meaningful_footnote_text: only an empty text is refused.
is_meaningful_footnote_text_unless_empty(value) == trim(value) # <<>>

is_meaningful_footnote_text(value) ==
    LET trimmed == trim(value)
        normalized == trim(TrimNonAlphanumeric(to_lowercase(trimmed)))
    IN /\ trimmed # <<>>
       /\ normalized # <<>>
       /\ normalized \notin TrivialTexts
       /\ ~(\A i \in 1..Len(normalized) : normalized[i] \in DigitChars)

normalize_footnote_key(value) ==
    to_lowercase(SelectSeq(value, IsAsciiAlphanumeric))

footnote_candidate_contains_target(candidate, target_id) ==
    LET target_exact == to_lowercase(target_id)
        target_key == normalize_footnote_key(target_id)
        hit(id) == \/ to_lowercase(id) = target_exact
                   \/ /\ normalize_footnote_key(id) # <<>>
                      /\ normalize_footnote_key(id) = target_key
    IN \/ \E id \in candidate.ids : hit(id)
       \/ \E target \in candidate.href_targets : hit(target)

\* A block of the body that collect_footnote_candidates may visit, by its
\* form: "flat" a div of class footnote, "list_item" a list item inside a
\* footnotes or endnotes container, "block" any other li, p or div; by whether
\* it holds a back-link marker; and by its ids, link targets and cleaned text.
Block(form, backlink, ids, href_targets, text) ==
    [form |-> form, backlink |-> backlink, ids |-> ids, href_targets |-> href_targets,
     text |-> text]

ListItem(ids, href_targets, text) == Block("list_item", FALSE, ids, href_targets, text)

\* collect_substack_footnote_candidates: the flat blocks with a meaningful text.
collect_substack_footnote_candidates(blocks) ==
    SelectSeq(blocks, LAMBDA b : b.form = "flat" /\ is_meaningful_footnote_text(b.text))

\* The preferred path: the list items of the footnote containers.
SectionCandidates(blocks) ==
    SelectSeq(blocks, LAMBDA b : b.form = "list_item" /\ is_meaningful_footnote_text(b.text))

\* The fallback path: the blocks that hold a back-link marker.
BacklinkCandidates(blocks) ==
    SelectSeq(blocks, LAMBDA b : b.backlink /\ is_meaningful_footnote_text(b.text))

\* A mutant of collect_footnote_candidates: the candidates of all three paths,
\* one after the other.
collect_footnote_candidates_of_all_paths(blocks) ==
    collect_substack_footnote_candidates(blocks) \o SectionCandidates(blocks)
        \o BacklinkCandidates(blocks)

\* collect_footnote_candidates: the result of the first path that gives a
\* candidate; every path keeps a block only when its text is meaningful.
collect_footnote_candidates(blocks) ==
    IF collect_substack_footnote_candidates(blocks) # <<>>
    THEN collect_substack_footnote_candidates(blocks)
    ELSE IF SectionCandidates(blocks) # <<>> THEN SectionCandidates(blocks)
    ELSE BacklinkCandidates(blocks)

\* A mutant of FootnoteEntry: every entry is numbered 1.
FootnoteEntryNumberedOne(id, notes_so_far, text) ==
    [id |-> id, number |-> 1, text |-> text]

\* FootnoteEntry { id, number: notes.len() + 1, text }
FootnoteEntry(id, notes_so_far, text) ==
    [id |-> id, number |-> Len(notes_so_far) + 1, text |-> text]

\* The first loop of extract_footnotes from target i on; st holds its locals,
\* and in `pairs` the candidate_idx found for each target, in the order found.
RECURSIVE MatchTargets(_, _, _, _)
MatchTargets(target_ids, candidates, i, st) ==
    IF i > Len(target_ids) THEN st
    ELSE LET target_id == target_ids[i]
             lower == to_lowercase(target_id)
             free == {c \in 1..Len(candidates) :
                         /\ c \notin st.used_candidates
                         /\ footnote_candidate_contains_target(candidates[c], target_id)}
         IN IF Contains(lower, <<"r", "e", "f">>) \/ target_id \in st.seen_target_ids
            THEN MatchTargets(target_ids, candidates, i + 1, st)
            ELSE LET st1 == [st EXCEPT !.seen_target_ids = @ \cup {target_id},
                                       !.ordered_ref_targets = Append(@, target_id)]
                 IN IF free = {}
                    THEN MatchTargets(target_ids, candidates, i + 1, st1)
                    ELSE LET candidate_idx == CHOOSE c \in free : \A d \in free : c <= d
                             text == candidates[candidate_idx].text
                             st2 == [st1 EXCEPT !.used_candidates = @ \cup {candidate_idx},
                                                !.pairs = Append(@,
                                                    [target_id |-> target_id,
                                                     candidate_idx |-> candidate_idx])]
                         IN IF ~is_meaningful_footnote_text(text)
                            THEN MatchTargets(target_ids, candidates, i + 1, st2)
                            ELSE MatchTargets(target_ids, candidates, i + 1,
                                    [st2 EXCEPT !.notes =
                                        Append(@, FootnoteEntry(target_id, st2.notes, text))])

\* The second loop of extract_footnotes from position `position` (0-based) on.
RECURSIVE MatchByPosition(_, _, _, _)
MatchByPosition(ordered_ref_targets, candidates, position, notes_so_far) ==
    IF position >= Len(ordered_ref_targets) THEN notes_so_far
    ELSE IF position < Len(candidates)
            /\ is_meaningful_footnote_text(candidates[position + 1].text)
         THEN MatchByPosition(ordered_ref_targets, candidates, position + 1,
                  Append(notes_so_far,
                         FootnoteEntry(ordered_ref_targets[position + 1], notes_so_far,
                                       candidates[position + 1].text)))
         ELSE MatchByPosition(ordered_ref_targets, candidates, position + 1, notes_so_far)

\* A mutant of extract_footnotes: the second loop always runs and adds its
\* entries to those of the first.
extract_footnotes_combined(target_ids, blocks) ==
    LET second_loop(candidates, st) ==
            [matched |-> st.notes,
             candidates |-> candidates,
             pairs |-> st.pairs,
             ordered_ref_targets |-> st.ordered_ref_targets,
             notes |-> MatchByPosition(st.ordered_ref_targets, candidates, 0, st.notes)]
        first_loop(candidates) ==
            second_loop(candidates,
                        MatchTargets(target_ids, candidates, 1,
                                     [seen_target_ids |-> {}, used_candidates |-> {},
                                      pairs |-> <<>>,
                                      notes |-> <<>>, ordered_ref_targets |-> <<>>]))
    IN first_loop(collect_footnote_candidates(blocks))

\* extract_footnotes: the entries it returns, with the entries of the first
\* loop (`matched`) and the targets that loop kept.
extract_footnotes(target_ids, blocks) ==
    LET second_loop(candidates, st) ==
            [matched |-> st.notes,
             candidates |-> candidates,
             pairs |-> st.pairs,
             ordered_ref_targets |-> st.ordered_ref_targets,
             notes |-> IF st.notes = <<>>
                       THEN MatchByPosition(st.ordered_ref_targets, candidates, 0, <<>>)
                       ELSE st.notes]
        first_loop(candidates) ==
            second_loop(candidates,
                        MatchTargets(target_ids, candidates, 1,
                                     [seen_target_ids |-> {}, used_candidates |-> {},
                                      pairs |-> <<>>,
                                      notes |-> <<>>, ordered_ref_targets |-> <<>>]))
    IN first_loop(collect_footnote_candidates(blocks))

------------------------------------------------------------------------------
(* utils.rs: escape_xml *)

\* The match of escape_xml on one character.
EscapeChar(ch) ==
    CASE ch = "&" -> <<"&", "a", "m", "p", ";">>
      [] ch = "<" -> <<"&", "l", "t", ";">>
      [] ch = ">" -> <<"&", "g", "t", ";">>
      [] ch = "\"" -> <<"&", "q", "u", "o", "t", ";">>
      [] ch = "'" -> <<"&", "a", "p", "o", "s", ";">>
      [] OTHER -> <<ch>>

ReservedChars == {"&", "<", ">", "\"", "'"}

RECURSIVE EscapeEach(_)
EscapeEach(value) ==
    IF value = <<>> THEN <<>> ELSE EscapeChar(Head(value)) \o EscapeEach(Tail(value))

escape_xml(value) ==
    IF ~(\E i \in 1..Len(value) : value[i] \in ReservedChars) THEN value
    ELSE EscapeEach(value)

------------------------------------------------------------------------------
(* substack.rs: process_body_for_exports.  A body is kept by the anchors of
   its main markup, in document order, by the footnote blocks of the
   containers that follow them, and by whether the main markup holds a block
   element.  An anchor is its attribute layout and its href:
     "class_href"  class="footnote-anchor" before href
     "href_class"  href before class="footnote-anchor"
     "plain"       an anchor without the footnote-anchor class
   A block is what collect_footnote_candidates reads from it: its ids, the
   fragments its links point to and its cleaned text.                        *)

\* str::starts_with
StartsWith(s, pat) == Len(s) >= Len(pat) /\ SubSeq(s, 1, Len(pat)) = pat

\* str::rfind of one character: the last position of it, 0 when there is none.
RFind(s, ch) ==
    IF \E i \in 1..Len(s) : s[i] = ch
    THEN CHOOSE i \in 1..Len(s) : s[i] = ch /\ \A j \in (i + 1)..Len(s) : s[j] # ch
    ELSE 0

extract_fragment_id_from_href(href) ==
    LET hash_pos == RFind(href, "#")
        raw == trim(SubSeq(href, hash_pos + 1, Len(href)))
    IN IF hash_pos = 0 \/ raw = <<>> THEN None ELSE Some(raw)

FootnoteWord == <<"f", "o", "o", "t", "n", "o", "t", "e">>

FootnoteAnchorWord == FootnoteWord \o <<"-", "a", "n", "c", "h", "o", "r">>

looks_like_footnote_id(id) ==
    LET lower == to_lowercase(id)
    IN /\ ~Contains(lower, FootnoteAnchorWord)
       /\ \/ Contains(lower, FootnoteWord)
          \/ StartsWith(lower, <<"f", "n">>)
          \/ Contains(lower, <<"f", "n", "-">>)

\* The links of a block as anchors of the document (a block of the model
\* carries at most one link, so their order is not a choice).
RECURSIVE BlockAnchors(_)
BlockAnchors(blocks) ==
    IF blocks = <<>> THEN <<>>
    ELSE LET links == Head(blocks).href_targets
         IN (IF links = {} THEN <<>>
             ELSE <<[style |-> "plain", href |-> <<"#">> \o (CHOOSE t \in links : TRUE)]>>)
            \o BlockAnchors(Tail(blocks))

\* One pass of collect_footnote_target_ids over the anchors from i on: `pass`
\* is the style its regex matches ("any" for the standard one); st holds
\* `result` and `seen`.
RECURSIVE CollectPass(_, _, _, _)
CollectPass(anchors, pass, i, st) ==
    IF i > Len(anchors) THEN st
    ELSE LET a == anchors[i]
             id == extract_fragment_id_from_href(a.href)
             lower == to_lowercase(id.value)
             keep == /\ pass \in {"any", a.style}
                     /\ id.some
                     /\ id.value \notin st.seen
                     /\ pass = "any" =>
                           /\ Contains(lower, FootnoteWord) \/ StartsWith(lower, <<"f", "n">>)
                           /\ ~Contains(lower, FootnoteAnchorWord)
         IN CollectPass(anchors, pass, i + 1,
                IF keep THEN [result |-> Append(st.result, id.value),
                              seen |-> st.seen \cup {id.value}]
                ELSE st)

\* collect_footnote_target_ids: the class-marked anchors of both layouts
\* first, then every anchor whose fragment looks like a footnote target.
collect_footnote_target_ids(anchors) ==
    LET st0 == [result |-> <<>>, seen |-> {}]
        st1 == CollectPass(anchors, "class_href", 1, st0)
        st2 == CollectPass(anchors, "href_class", 1, st1)
    IN CollectPass(anchors, "any", 1, st2).result

\* The by_id map of replace_footnote_refs_with_tokens after the notes given.
RECURSIVE NumbersById(_, _)
NumbersById(footnotes, by_id) ==
    IF footnotes = <<>> THEN by_id
    ELSE LET note == Head(footnotes)
             exact == to_lowercase(note.id)
             normalized == normalize_footnote_key(note.id)
             inserted == [k \in DOMAIN by_id \cup {exact} |->
                             IF k = exact THEN note.number ELSE by_id[k]]
             or_inserted == IF normalized = <<>> \/ normalized \in DOMAIN inserted
                            THEN inserted
                            ELSE [k \in DOMAIN inserted \cup {normalized} |->
                                     IF k = normalized THEN note.number ELSE inserted[k]]
         IN NumbersById(Tail(footnotes), or_inserted)

Token(number) == [kind |-> "token", number |-> number]

\* The closure replace_footnote_refs_with_tokens applies to one anchor.
ReplaceAnchor(anchor, by_id) ==
    LET target_id == extract_fragment_id_from_href(anchor.href)
        lookup == to_lowercase(target_id.value)
        normalized == normalize_footnote_key(target_id.value)
        unchanged == [kind |-> "anchor", anchor |-> anchor]
    IN IF ~target_id.some THEN unchanged
       ELSE IF ~looks_like_footnote_id(target_id.value) THEN unchanged
       ELSE IF lookup \in DOMAIN by_id THEN Token(by_id[lookup])
       ELSE IF normalized # <<>> /\ normalized \in DOMAIN by_id THEN Token(by_id[normalized])
       ELSE unchanged

\* replace_footnote_refs_with_tokens: the items of the main markup, one per
\* anchor of the input.
replace_footnote_refs_with_tokens(anchors, footnotes) ==
    LET by_id == NumbersById(footnotes, <<>>)
    IN [i \in 1..Len(anchors) |-> ReplaceAnchor(anchors[i], by_id)]

Numbers(footnotes) == {footnotes[i].number : i \in 1..Len(footnotes)}

\* A mutant of inject_text_footnotes: only the token of the first note is
\* replaced.
inject_text_footnotes_first_only(main_text, footnotes) ==
    [items |-> [i \in 1..Len(main_text) |->
                   IF main_text[i].kind = "token" /\ footnotes # <<>>
                      /\ main_text[i].number = footnotes[1].number
                   THEN [kind |-> "text_ref", number |-> main_text[i].number]
                   ELSE main_text[i]],
     footnotes |-> [i \in 1..Len(footnotes) |->
                       [number |-> footnotes[i].number, text |-> footnotes[i].text]]]

\* inject_text_footnotes: "[[FN:n]]" becomes "[n]" for the number of every
\* note, and the notes are listed under "Footnotes".
inject_text_footnotes(main_text, footnotes) ==
    [items |-> [i \in 1..Len(main_text) |->
                   IF main_text[i].kind = "token" /\ main_text[i].number \in Numbers(footnotes)
                   THEN [kind |-> "text_ref", number |-> main_text[i].number]
                   ELSE main_text[i]],
     footnotes |-> [i \in 1..Len(footnotes) |->
                       [number |-> footnotes[i].number, text |-> footnotes[i].text]]]

\* render_plain_text: an anchor is replaced by what it encloses, the markup
\* becomes text, and the tokens, being text, go through to
\* inject_text_footnotes.
render_plain_text(html_with_markers, footnotes) ==
    LET stripped == [i \in 1..Len(html_with_markers) |->
                        IF html_with_markers[i].kind = "anchor" THEN [kind |-> "text"]
                        ELSE html_with_markers[i]]
    IN inject_text_footnotes(stripped, footnotes)

\* build_epub_body.  Every token of a note's number becomes a noteref element;
\* markup without a block element is turned into text and escaped, whatever
\* elements it held; the list has one entry per number of 1..=len.
build_epub_body(html_with_markers, block_markup, footnotes) ==
    LET marked == [i \in 1..Len(html_with_markers) |->
                      IF html_with_markers[i].kind = "token"
                         /\ html_with_markers[i].number \in Numbers(footnotes)
                      THEN [kind |-> "noteref", number |-> html_with_markers[i].number]
                      ELSE html_with_markers[i]]
        fallback == [i \in 1..Len(marked) |->
                        IF marked[i].kind = "token" THEN marked[i] ELSE [kind |-> "text"]]
        indexed(number) ==
            LET at == {i \in 1..Len(footnotes) : footnotes[i].number = number}
            IN IF at = {} THEN None
               ELSE Some(footnotes[CHOOSE i \in at : \A j \in at : j <= i])
        listed == SelectSeq([number \in 1..Len(footnotes) |-> indexed(number)],
                            LAMBDA note : note.some)
    IN [items |-> IF block_markup THEN marked ELSE fallback,
        footnotes |-> [i \in 1..Len(listed) |->
                          [number |-> listed[i].value.number,
                           text |-> escape_xml(listed[i].value.text)]]]

\* process_body_for_exports on the document of the anchors and blocks given:
\* remove_footnote_containers leaves the anchors of the main markup.
process_body_for_exports(anchors, blocks, block_markup) ==
    LET renderings(footnotes, html_with_markers) ==
            [footnotes |-> footnotes,
             html_with_markers |-> html_with_markers,
             plain_text |-> render_plain_text(html_with_markers, footnotes),
             epub_body |-> build_epub_body(html_with_markers, block_markup, footnotes)]
        with_footnotes(footnotes) ==
            renderings(footnotes, replace_footnote_refs_with_tokens(anchors, footnotes))
        target_ids == collect_footnote_target_ids(anchors \o BlockAnchors(blocks))
    IN with_footnotes(extract_footnotes(target_ids, blocks).notes)

------------------------------------------------------------------------------
(* export.rs: render_txt_post, render_metadata_lines, render_epub_chapter,
   render_epub_metadata.  A rendered text is kept by the texts put into its
   places: a line by its field and the characters after its label.          *)

MetadataFields ==
    {"Title", "Author", "PublishedAt", "Url", "Tags", "Subtitle", "ReadingTime", "Summary"}

NotAvailable == <<"N", "/", "A">>

UnknownName == <<"U", "n", "k", "n", "o", "w", "n">>

UnknownAuthor == <<"U", "n", "k", "n", "o", "w", "n", " ", "a", "u", "t", "h", "o", "r">>

\* [String]::join
RECURSIVE Join(_, _)
Join(items, sep) ==
    IF items = <<>> THEN <<>>
    ELSE IF Len(items) = 1 THEN items[1]
    ELSE items[1] \o sep \o Join(Tail(items), sep)

DecimalDigits == <<"0", "1", "2", "3", "4", "5", "6", "7", "8", "9">>

\* format!("{v}") of an unsigned integer
RECURSIVE Decimal(_)
Decimal(v) ==
    IF v < 10 THEN <<DecimalDigits[v + 1]>>
    ELSE Decimal(v \div 10) \o <<DecimalDigits[(v % 10) + 1]>>

\* items.join(", "), or "N/A" without tags
TagsText(post) ==
    IF post.summary.tags.some THEN Join(post.summary.tags.value, <<",", " ">>)
    ELSE NotAvailable

\* format!("{v} min"), or "N/A" without a reading time
ReadingTimeText(post) ==
    IF post.reading_time_minutes.some
    THEN Decimal(post.reading_time_minutes.value) \o <<" ", "m", "i", "n">>
    ELSE NotAvailable

Line(field, value) == [field |-> field, value |-> value]

render_metadata_lines(post, metadata_fields) ==
    (IF "Title" \in metadata_fields
     THEN <<Line("Title", post.summary.title)>> ELSE <<>>)
    \o (IF "Author" \in metadata_fields
        THEN <<Line("Author", unwrap_or(post.summary.author, UnknownName))>> ELSE <<>>)
    \o (IF "PublishedAt" \in metadata_fields
        THEN <<Line("PublishedAt", post.summary.published_at)>> ELSE <<>>)
    \o (IF "Url" \in metadata_fields
        THEN <<Line("Url", post.summary.url)>> ELSE <<>>)
    \o (IF "Tags" \in metadata_fields
        THEN <<Line("Tags", TagsText(post))>> ELSE <<>>)
    \o (IF "Subtitle" \in metadata_fields
        THEN <<Line("Subtitle", unwrap_or(post.summary.subtitle, NotAvailable))>> ELSE <<>>)
    \o (IF "ReadingTime" \in metadata_fields
        THEN <<Line("ReadingTime", ReadingTimeText(post))>> ELSE <<>>)
    \o (IF "Summary" \in metadata_fields
        THEN <<Line("Summary", unwrap_or(post.summary_text, NotAvailable))>> ELSE <<>>)

render_txt_post(post, metadata_fields) ==
    [title |-> post.summary.title,
     metadata |-> render_metadata_lines(post, metadata_fields),
     text |-> post.plain_text]

\* render_epub_metadata: the lines of the block, and whether it holds
\* "No metadata selected." instead.
render_epub_metadata(post, metadata_fields) ==
    LET lines ==
            (IF "Author" \in metadata_fields
             THEN <<Line("Author", escape_xml(unwrap_or(post.summary.author, UnknownName)))>>
             ELSE <<>>)
            \o (IF "PublishedAt" \in metadata_fields
                THEN <<Line("PublishedAt", escape_xml(post.summary.published_at))>> ELSE <<>>)
            \o (IF "Url" \in metadata_fields
                THEN <<Line("Url", escape_xml(post.summary.url))>> ELSE <<>>)
            \o (IF "Tags" \in metadata_fields
                THEN <<Line("Tags", escape_xml(TagsText(post)))>> ELSE <<>>)
            \o (IF "Subtitle" \in metadata_fields
                THEN <<Line("Subtitle", escape_xml(unwrap_or(post.summary.subtitle, NotAvailable)))>>
                ELSE <<>>)
            \o (IF "ReadingTime" \in metadata_fields
                THEN <<Line("ReadingTime", escape_xml(ReadingTimeText(post)))>> ELSE <<>>)
            \o (IF "Summary" \in metadata_fields
                THEN <<Line("Summary", escape_xml(unwrap_or(post.summary_text, NotAvailable)))>>
                ELSE <<>>)
    IN [lines |-> lines, none_selected |-> lines = <<>>]

\* render_epub_chapter: the title of the head, the heading, the metadata
\* block and the body.
render_epub_chapter(post, metadata_fields) ==
    LET title == escape_xml(post.summary.title)
    IN [title |-> title, heading |-> title,
        metadata |-> render_epub_metadata(post, metadata_fields),
        body |-> post.epub_body]

------------------------------------------------------------------------------
(* export.rs: write_txt_outputs, write_epub_outputs, write_epub.  A file is
   kept by its path and by the parts of its content the claims read.        *)

FilePath(dir, publication_title, name, ext) ==
    [dir |-> dir, publication |-> sanitize_filename(publication_title),
     name |-> name, ext |-> ext]

PostFilePath(dir, publication_title, post, ext) ==
    FilePath(dir, publication_title, sanitize_filename(post.summary.title), ext)

CombinedFilePath(dir, publication_title, ext) ==
    FilePath(dir, publication_title, <<"c", "o", "m", "b", "i", "n", "e", "d">>, ext)

PostIds(posts) == [i \in 1..Len(posts) |-> posts[i].summary.id]

Reverse(seq) == [i \in 1..Len(seq) |-> seq[Len(seq) + 1 - i]]

RenderedPosts(posts, metadata_fields) ==
    [i \in 1..Len(posts) |-> render_txt_post(posts[i], metadata_fields)]

\* A mutant of write_txt_outputs: the posts are taken last to first.
write_txt_outputs_reversed(output_dir, publication_title, posts, metadata_fields, granularity) ==
    IF granularity = "PerPost"
    THEN [i \in 1..Len(posts) |->
            [path |-> PostFilePath(output_dir, publication_title, Reverse(posts)[i], "txt"),
             content |-> [kind |-> "txt", header |-> FALSE,
                          sections |-> <<Reverse(posts)[i].summary.id>>,
                          posts |-> RenderedPosts(<<Reverse(posts)[i]>>, metadata_fields)]]]
    ELSE << [path |-> CombinedFilePath(output_dir, publication_title, "txt"),
             content |-> [kind |-> "txt", header |-> TRUE,
                          sections |-> PostIds(Reverse(posts)),
                          posts |-> RenderedPosts(Reverse(posts), metadata_fields)]] >>

\* The writes of write_txt_outputs, in the order it makes them.
write_txt_outputs(output_dir, publication_title, posts, metadata_fields, granularity) ==
    IF granularity = "PerPost"
    THEN [i \in 1..Len(posts) |->
            [path |-> PostFilePath(output_dir, publication_title, posts[i], "txt"),
             content |-> [kind |-> "txt", header |-> FALSE,
                          sections |-> <<posts[i].summary.id>>,
                          posts |-> RenderedPosts(<<posts[i]>>, metadata_fields)]]]
    ELSE << [path |-> CombinedFilePath(output_dir, publication_title, "txt"),
             content |-> [kind |-> "txt", header |-> TRUE, sections |-> PostIds(posts),
                          posts |-> RenderedPosts(posts, metadata_fields)]] >>

EntryName(base, n, ext) == [base |-> base, n |-> n, ext |-> ext]

ItemId(base, n) == [base |-> base, n |-> n]

\* A mutant of ChapterEntries: the chapter files are numbered from 0.
ChapterEntriesFromZero(posts) ==
    [i \in 1..Len(posts) |->
        [name |-> EntryName("OEBPS/text/chapter-", i - 1, "xhtml"), method |-> "Deflated"]]

ChapterEntries(posts) ==
    [i \in 1..Len(posts) |->
        [name |-> EntryName("OEBPS/text/chapter-", i, "xhtml"), method |-> "Deflated"]]

ChapterItems(posts) ==
    [i \in 1..Len(posts) |->
        [id |-> ItemId("chapter-", i), href |-> EntryName("text/chapter-", i, "xhtml")]]

\* A mutant of SpineItems: the cover page is left out of the spine.
SpineItemsChaptersOnly(posts, cover) ==
    [i \in 1..Len(posts) |-> ItemId("chapter-", i)]

\* spine_items: the cover page when there is a cover, then the chapters.
SpineItems(posts, cover) ==
    (IF cover.present THEN <<ItemId("cover-page", 0)>> ELSE <<>>)
    \o [i \in 1..Len(posts) |-> ItemId("chapter-", i)]

\* The characters of the media types of the model.
AsChars(media_type) ==
    CASE media_type = "image/png" -> <<"i", "m", "a", "g", "e", "/", "p", "n", "g">>
      [] media_type = "image/jpeg" -> <<"i", "m", "a", "g", "e", "/", "j", "p", "e", "g">>
      [] media_type = "image/jpg" -> <<"i", "m", "a", "g", "e", "/", "j", "p", "g">>
      [] media_type = "image/gif" -> <<"i", "m", "a", "g", "e", "/", "g", "i", "f">>
      [] media_type = "image/webp" -> <<"i", "m", "a", "g", "e", "/", "w", "e", "b", "p">>
      [] media_type = "image/svg+xml" -> <<"i", "m", "a", "g", "e", "/", "s", "v", "g", "+", "x", "m", "l">>
      [] media_type = "image/a&b" -> <<"i", "m", "a", "g", "e", "/", "a", "&", "b">>
      [] OTHER -> <<>>

CoverLabel == <<"C", "o", "v", "e", "r">>

\* The archive write_epub writes: its entries in order, the manifest and spine
\* of content.opf, the links of nav.xhtml, the post of each chapter, and the
\* texts put into the package document, the navigation document, the cover
\* page and the chapters.
write_epub(book_title, book_author, posts, metadata_fields, cover) ==
    LET coverEntries ==
            IF cover.present
            THEN << [name |-> EntryName("OEBPS/images/cover.", 0, cover.extension),
                     method |-> "Deflated"] >>
            ELSE <<>>
        coverItems ==
            IF cover.present
            THEN << [id |-> ItemId("cover-image", 0),
                     href |-> EntryName("images/cover.", 0, cover.extension)],
                    [id |-> ItemId("cover-page", 0),
                     href |-> EntryName("text/cover", 0, "xhtml")] >>
            ELSE <<>>
        coverPage ==
            IF cover.present
            THEN << [name |-> EntryName("OEBPS/text/cover", 0, "xhtml"), method |-> "Deflated"] >>
            ELSE <<>>
    IN [kind |-> "epub", title |-> book_title, author |-> book_author,
        entries |-> << [name |-> EntryName("mimetype", 0, ""), method |-> "Stored"],
                       [name |-> EntryName("META-INF/container", 0, "xml"), method |-> "Deflated"] >>
                    \o coverEntries
                    \o << [name |-> EntryName("OEBPS/content", 0, "opf"), method |-> "Deflated"],
                          [name |-> EntryName("OEBPS/nav", 0, "xhtml"), method |-> "Deflated"] >>
                    \o coverPage
                    \o ChapterEntries(posts),
        manifest |-> << [id |-> ItemId("nav", 0), href |-> EntryName("nav", 0, "xhtml")] >>
                     \o coverItems \o ChapterItems(posts),
        spine |-> SpineItems(posts, cover),
        nav |-> (IF cover.present THEN <<EntryName("text/cover", 0, "xhtml")>> ELSE <<>>)
                \o [i \in 1..Len(posts) |-> EntryName("text/chapter-", i, "xhtml")],
        chapters |-> PostIds(posts),
        package |-> [title |-> escape_xml(book_title),
                     creator |-> escape_xml(book_author),
                     cover_media_type |-> IF cover.present
                                          THEN Some(AsChars(cover.media_type)) ELSE None],
        navigation |-> [title |-> escape_xml(book_title),
                        labels |-> (IF cover.present THEN <<CoverLabel>> ELSE <<>>)
                                   \o [i \in 1..Len(posts) |->
                                          escape_xml(posts[i].summary.title)]],
        cover_page |-> IF cover.present
                       THEN Some([title |-> escape_xml(book_title),
                                  author |-> escape_xml(book_author)])
                       ELSE None,
        chapter_docs |-> [i \in 1..Len(posts) |->
                             render_epub_chapter(posts[i], metadata_fields)]]

\* The writes of write_epub_outputs, in the order it makes them.
write_epub_outputs(output_dir, publication_title, publication_author, posts, metadata_fields, granularity, cover) ==
    IF granularity = "PerPost"
    THEN [i \in 1..Len(posts) |->
            [path |-> PostFilePath(output_dir, publication_title, posts[i], "epub"),
             content |-> write_epub(posts[i].summary.title,
                                    unwrap_or(posts[i].summary.author, publication_author),
                                    <<posts[i]>>, metadata_fields, cover)]]
    ELSE << [path |-> CombinedFilePath(output_dir, publication_title, "epub"),
             content |-> write_epub(publication_title, publication_author, posts,
                                    metadata_fields, cover)] >>

\* fs::write / File::create: the file at `path` is replaced.
WriteFile(fs, w) == {f \in fs : f.path # w.path} \cup {w}

RECURSIVE WriteAll(_, _)
WriteAll(fs, writes) ==
    IF writes = <<>> THEN fs ELSE WriteAll(WriteFile(fs, Head(writes)), Tail(writes))

Paths(writes) == [i \in 1..Len(writes) |-> writes[i].path]


------------------------------------------------------------------------------
(* The requests of Spec.  The discovered posts are a prefix of a fixed list;
   the requests vary the fields run_export_job validates (ValidationRequests),
   the fields it selects and orders by (SelectionRequests) and the fields
   cover resolution and assembly read (AssemblyRequests).                    *)

JobTitle(i) ==
    CASE i = 1 -> <<"b">>
      [] i = 2 -> <<"A", "?">>
      [] OTHER -> <<"a">>

JobPublishedAt(i) ==
    CASE i = 1 -> [fmt |-> "rfc3339", ms |-> 0]
      [] i = 2 -> [fmt |-> "rfc2822", ms |-> 1]
      [] OTHER -> [fmt |-> "junk", ms |-> 0]

JobPost(i) ==
    [id |-> i, title |-> JobTitle(i), published_at |-> JobPublishedAt(i),
     url |-> i, author |-> None, tags |-> None, subtitle |-> None, summary |-> None]

JobPosts(n) == [i \in 1..n |-> JobPost(i)]

\* Post ids a request may name: those of the posts and one of no post.
JobIds == 1..(MaxPosts + 1)

OutputDirs == { <<>>, <<" ">>, <<" ", "d", " ">> }

DataUrls ==
    { [has_comma |-> FALSE, base64_suffix |-> FALSE, mime |-> "", body |-> "invalid"],
      [has_comma |-> TRUE, base64_suffix |-> FALSE, mime |-> "", body |-> "png"],
      [has_comma |-> TRUE, base64_suffix |-> TRUE, mime |-> "image/png", body |-> "invalid"],
      [has_comma |-> TRUE, base64_suffix |-> TRUE, mime |-> "image/png", body |-> "empty"],
      [has_comma |-> TRUE, base64_suffix |-> TRUE, mime |-> "image/jpeg", body |-> "png"],
      [has_comma |-> TRUE, base64_suffix |-> TRUE, mime |-> "image/gif", body |-> "unknown"],
      [has_comma |-> TRUE, base64_suffix |-> TRUE, mime |-> "image/svg+xml", body |-> "unknown"] }

\* What a cover fetch may return as the body.
FetchedBytes == {"empty", "jpeg", "unknown"}

BaseRequest ==
    [publication_title |-> <<"N">>, publication_author |-> None,
     author_cover_url |-> Some("cover"), mode |-> "EntireProfile",
     selected_post_ids |-> {}, order_mode |-> "Date", manual_order |-> <<>>,
     sort_direction |-> "Desc", formats |-> {"Epub", "Txt"},
     granularity |-> "Combined", cover_mode |-> "SubstackAuthor",
     custom_cover_data_url |-> None, metadata_fields |-> {"Title", "Author"},
     output_dir |-> <<"d">>, posts |-> JobPosts(MaxPosts)]

Selections ==
    {[mode |-> "EntireProfile", ids |-> {}]}
    \cup {[mode |-> "SpecificPosts", ids |-> ids] : ids \in SUBSET JobIds}

\* Manual lists of a request: one id of a post, and an id of no post before
\* the id of the first post.
JobManualOrders == { <<2>>, <<MaxPosts + 1, 1>> }

Orderings ==
    {[order_mode |-> "Date", manual_order |-> <<>>, sort_direction |-> d] : d \in {"Desc", "Asc"}}
    \cup {[order_mode |-> "Manual", manual_order |-> m, sort_direction |-> d] :
            m \in JobManualOrders, d \in {"Desc", "Asc"}}

ValidationRequests ==
    {[BaseRequest EXCEPT !.formats = f, !.output_dir = dir] :
        f \in SUBSET {"Epub", "Txt"}, dir \in OutputDirs}

SelectionRequests ==
    {[BaseRequest EXCEPT !.formats = {"Txt"}, !.posts = JobPosts(n),
                         !.mode = sel.mode, !.selected_post_ids = sel.ids,
                         !.order_mode = o.order_mode, !.manual_order = o.manual_order,
                         !.sort_direction = o.sort_direction] :
        n \in 0..MaxPosts, sel \in Selections, o \in Orderings}

Covers ==
    {[cover_mode |-> "SubstackAuthor", author_cover_url |-> u, custom_cover_data_url |-> None] :
        u \in {None, Some("cover")}}
    \cup {[cover_mode |-> "Custom", author_cover_url |-> None, custom_cover_data_url |-> c] :
            c \in {None} \cup {Some(d) : d \in DataUrls}}

AssemblyRequests ==
    {[BaseRequest EXCEPT !.formats = f, !.granularity = g,
                         !.cover_mode = c.cover_mode,
                         !.author_cover_url = c.author_cover_url,
                         !.custom_cover_data_url = c.custom_cover_data_url] :
        f \in (SUBSET {"Epub", "Txt"}) \ {{}}, g \in {"PerPost", "Combined"}, c \in Covers}

Requests == ValidationRequests \cup SelectionRequests \cup AssemblyRequests

IdleOrd == [status |-> "idle"]

IdleNotes == [status |-> "idle"]

IdleBody == [status |-> "idle"]

IdleRender == [status |-> "idle"]

IdleStrip == [status |-> "idle"]

IdleRequest == [status |-> "idle"]

Init ==
    /\ request \in Requests
    /\ pc = "Validating"
    /\ error = NoError
    /\ dir_created = FALSE
    /\ selected = <<>>
    /\ ordered = <<>>
    /\ idx = 1
    /\ succeeded = <<>>
    /\ failed = <<>>
    /\ contents = <<>>
    /\ warnings = <<>>
    /\ cover_asset = NoCover
    /\ output_files = <<>>
    /\ files = {}
    /\ requests = <<>>
    /\ fetch = IdleFetch
    /\ ord = IdleOrd
    /\ notes = IdleNotes
    /\ body = IdleBody
    /\ render = IdleRender
    /\ strip = IdleStrip


------------------------------------------------------------------------------
(* export.rs: run_export_job, one action per phase; a fetch takes one step
   per attempt.                                                              *)

Fail(msg) == pc' = "Failed" /\ error' = ErrorOf(msg)

\* What fetch_post_content reads from a fetched page: the title (og:title or
\* the first h1), the author, the publication time, the description, the tags
\* and the reading time, each present or not, and the body.
Pages ==
    { [title |-> None, author |-> None, published_at |-> None, subtitle |-> None,
       tags |-> <<>>, reading_time |-> None,
       body |-> [anchors |-> <<>>, blocks |-> <<>>, block_markup |-> TRUE]],
      [title |-> Some(<<"t">>), author |-> Some(<<"p">>),
       published_at |-> Some([fmt |-> "rfc3339", ms |-> 1]), subtitle |-> Some(<<"s">>),
       tags |-> << <<"a">>, <<"b">> >>, reading_time |-> Some(3),
       body |-> [anchors |-> << [style |-> "plain", href |-> <<"#", "f", "n", "1">>] >>,
                 blocks |-> << ListItem({<<"f", "n", "1">>}, {}, <<"n">>) >>,
                 block_markup |-> TRUE]] }

\* substack.rs: fetch_post_content on a fetched page: the summary keeps its id,
\* url and summary; title, author, publication time, subtitle and tags are the
\* page's when it has them and the discovery-time values otherwise; the texts
\* are those of process_body_for_exports.
fetch_post_content(summary, page) ==
    LET post_content(processed_body) ==
            [summary |-> [id |-> summary.id,
                          title |-> unwrap_or(page.title, summary.title),
                          published_at |-> unwrap_or(page.published_at, summary.published_at),
                          url |-> summary.url,
                          author |-> IF page.author.some THEN page.author ELSE summary.author,
                          tags |-> IF page.tags = <<>> THEN summary.tags ELSE Some(page.tags),
                          subtitle |-> IF page.subtitle.some THEN page.subtitle
                                       ELSE summary.subtitle,
                          summary |-> summary.summary],
             plain_text |-> processed_body.plain_text,
             epub_body |-> processed_body.epub_body,
             reading_time_minutes |-> page.reading_time,
             summary_text |-> summary.summary]
    IN post_content(process_body_for_exports(page.body.anchors, page.body.blocks,
                                             page.body.block_markup))

\* A mutant of Validate: the result of create_dir_all is ignored.
ValidateIgnoresCreateDir ==
    /\ pc = "Validating"
    /\ \E created \in BOOLEAN :
          IF request.formats = {}
          THEN Fail("At least one format must be selected.") /\ UNCHANGED dir_created
          ELSE IF trim(request.output_dir) = <<>>
          THEN Fail("Output directory is required.") /\ UNCHANGED dir_created
          ELSE pc' = "Selecting" /\ dir_created' = created /\ UNCHANGED error
    /\ UNCHANGED <<request, selected, ordered, idx, succeeded, failed, contents,
                   warnings, cover_asset, output_files, files, requests, fetch,
                   ord, notes, body, render, strip>>

\* Lines 30-37: the formats, the output directory, create_dir_all.
Validate ==
    /\ pc = "Validating"
    /\ \E created \in BOOLEAN :
          IF request.formats = {}
          THEN Fail("At least one format must be selected.") /\ UNCHANGED dir_created
          ELSE IF trim(request.output_dir) = <<>>
          THEN Fail("Output directory is required.") /\ UNCHANGED dir_created
          ELSE IF ~created
          THEN Fail("Failed to create output directory.") /\ UNCHANGED dir_created
          ELSE pc' = "Selecting" /\ dir_created' = TRUE /\ UNCHANGED error
    /\ UNCHANGED <<request, selected, ordered, idx, succeeded, failed, contents,
                   warnings, cover_asset, output_files, files, requests, fetch,
                   ord, notes, body, render, strip>>

\* Lines 39-45: select_posts, the empty check, order_posts, build_http_client.
SelectPosts ==
    /\ pc = "Selecting"
    /\ LET sel == select_posts(request)
       IN IF ~sel.ok
          THEN /\ pc' = "Failed" /\ error' = sel.error
               /\ UNCHANGED <<selected, ordered>>
          ELSE IF sel.value = <<>>
          THEN /\ Fail("No posts matched the current selection.")
               /\ selected' = sel.value
               /\ UNCHANGED ordered
          ELSE \E iteration \in Iterations(sel.value, request.order_mode, request.manual_order),
                  client \in BOOLEAN :
                  /\ selected' = sel.value
                  /\ ordered' = order_posts(sel.value, request.order_mode,
                                            request.manual_order,
                                            request.sort_direction, iteration)
                  /\ IF client
                     THEN pc' = "Fetching" /\ UNCHANGED error
                     ELSE Fail("Failed to build HTTP client")
    /\ UNCHANGED <<request, dir_created, idx, succeeded, failed, contents,
                   warnings, cover_asset, output_files, files, requests, fetch,
                   ord, notes, body, render, strip>>

\* A mutant of PostFetched: a failed post ends the loop.
PostFetchedStopOnFailure(f, page) ==
    LET summary == ordered[idx]
        last == f.status = "err" \/ idx = Len(ordered)
        pushed(content) ==
            /\ succeeded' = IF f.status = "ok" THEN Append(succeeded, content.summary.id)
                            ELSE succeeded
            /\ contents' = IF f.status = "ok" THEN Append(contents, content) ELSE contents
    IN /\ idx' = idx + 1
       /\ pushed(fetch_post_content(summary, page))
       /\ failed' = IF f.status = "ok" THEN failed
                    ELSE Append(failed, [post_id |-> summary.id, reason |-> f.returned.value])
       /\ IF ~last THEN UNCHANGED <<pc, error>>
          ELSE IF contents' = <<>>
          THEN Fail("All post downloads failed; no output generated.")
          ELSE pc' = "Rendering" /\ UNCHANGED error

\* A mutant of PostFetched: the check that some content was extracted is gone.
PostFetchedNoEmptyCheck(f, page) ==
    LET summary == ordered[idx]
        pushed(content) ==
            /\ succeeded' = IF f.status = "ok" THEN Append(succeeded, content.summary.id)
                            ELSE succeeded
            /\ contents' = IF f.status = "ok" THEN Append(contents, content) ELSE contents
    IN /\ idx' = idx + 1
       /\ pushed(fetch_post_content(summary, page))
       /\ failed' = IF f.status = "ok" THEN failed
                    ELSE Append(failed, [post_id |-> summary.id, reason |-> f.returned.value])
       /\ IF idx = Len(ordered) THEN pc' = "Rendering" /\ UNCHANGED error
          ELSE UNCHANGED <<pc, error>>

\* Lines 52-68: the match on the result of fetch_post_content, and after the
\* last post of `ordered` the check that some content was extracted.
PostFetched(f, page) ==
    LET summary == ordered[idx]
        last == idx = Len(ordered)
        pushed(content) ==
            /\ succeeded' = IF f.status = "ok" THEN Append(succeeded, content.summary.id)
                            ELSE succeeded
            /\ contents' = IF f.status = "ok" THEN Append(contents, content) ELSE contents
    IN /\ idx' = idx + 1
       /\ pushed(fetch_post_content(summary, page))
       /\ failed' = IF f.status = "ok" THEN failed
                    ELSE Append(failed, [post_id |-> summary.id, reason |-> f.returned.value])
       /\ IF ~last THEN UNCHANGED <<pc, error>>
          ELSE IF contents' = <<>>
          THEN Fail("All post downloads failed; no output generated.")
          ELSE pc' = "Rendering" /\ UNCHANGED error

\* A mutant of FetchPostAttempt: the requests of all posts are sent when the
\* loop starts, and the loop then awaits them one by one.
FetchPostAttemptFanOut ==
    /\ pc = "Fetching"
    /\ idx <= Len(ordered)
    /\ \E outcome \in AttemptOutcomes, page \in Pages :
          LET first == fetch.status = "idle"
              f0 == IF first THEN NewFetch("text", RETRIES_PER_REQUEST) ELSE fetch
              f1 == FetchAttempt(f0, outcome)
          IN /\ requests' = IF first /\ idx = 1
                            THEN requests \o [i \in 1..Len(ordered) |->
                                                [kind |-> "post", target |-> ordered[i].url]]
                            ELSE requests
             /\ IF f1.status = "running"
                THEN /\ fetch' = f1
                     /\ UNCHANGED <<pc, error, idx, succeeded, failed, contents>>
                ELSE /\ fetch' = IdleFetch
                     /\ PostFetched(f1, page)
    /\ UNCHANGED <<request, dir_created, selected, ordered, warnings, cover_asset,
                   output_files, files, ord, notes, body, render, strip>>

\* Lines 51-52 with fetch_text_with_retries: one attempt of the fetch of the
\* post at idx; the attempt that ends the fetch also runs the match on it.
FetchPostAttempt ==
    /\ pc = "Fetching"
    /\ idx <= Len(ordered)
    /\ \E outcome \in AttemptOutcomes, page \in Pages :
          LET first == fetch.status = "idle"
              f0 == IF first THEN NewFetch("text", RETRIES_PER_REQUEST) ELSE fetch
              f1 == FetchAttempt(f0, outcome)
          IN /\ requests' = IF first
                            THEN Append(requests, [kind |-> "post", target |-> ordered[idx].url])
                            ELSE requests
             /\ IF f1.status = "running"
                THEN /\ fetch' = f1
                     /\ UNCHANGED <<pc, error, idx, succeeded, failed, contents>>
                ELSE /\ fetch' = IdleFetch
                     /\ PostFetched(f1, page)
    /\ UNCHANGED <<request, dir_created, selected, ordered, warnings, cover_asset,
                   output_files, files, ord, notes, body, render, strip>>


\* Whether resolve_cover fetches: the e-book format is selected, the cover is
\* the publication's own and it has a cover URL.
NeedsCoverFetch ==
    /\ "Epub" \in request.formats
    /\ request.cover_mode = "SubstackAuthor"
    /\ request.author_cover_url.some

\* A mutant of CoverOrWarning: a failed cover is kept as a cover.
CoverOrWarningKeepsCover(result) ==
    IF result.ok THEN [cover |-> result.value, warnings |-> warnings]
    ELSE [cover |-> [present |-> TRUE, bytes |-> "empty", media_type |-> "image/jpeg",
                     extension |-> "jpg"],
          warnings |-> Append(warnings, result.error)]

\* Lines 72-78: the match on the result of resolve_cover.
CoverOrWarning(result) ==
    IF result.ok THEN [cover |-> result.value, warnings |-> warnings]
    ELSE [cover |-> NoCover, warnings |-> Append(warnings, result.error)]

\* Lines 70-81 when resolve_cover needs no fetch: the e-book format is not
\* selected, the cover is a custom one, or the publication has no cover URL.
ResolveCoverLocal ==
    /\ pc = "Rendering"
    /\ ~NeedsCoverFetch
    /\ LET result == IF "Epub" \notin request.formats THEN Ok(NoCover)
                     ELSE IF request.cover_mode = "Custom" THEN resolve_cover_custom(request)
                     ELSE Ok(NoCover)
           got == CoverOrWarning(result)
       IN /\ cover_asset' = got.cover
          /\ warnings' = got.warnings
    /\ pc' = "Assembling"
    /\ UNCHANGED <<request, error, dir_created, selected, ordered, idx, succeeded,
                   failed, contents, output_files, files, requests, fetch, ord,
                   notes, body, render, strip>>

\* Lines 70-81 with fetch_bytes_with_retries: one attempt of the cover fetch;
\* the attempt that ends it also normalizes the bytes and runs the match.
FetchCoverAttempt ==
    /\ pc = "Rendering"
    /\ NeedsCoverFetch
    /\ \E outcome \in AttemptOutcomes, bytes \in FetchedBytes :
          LET first == fetch.status = "idle"
              f0 == IF first THEN NewFetch("bytes", RETRIES_PER_REQUEST) ELSE fetch
              f1 == FetchAttempt(f0, outcome)
              result == IF f1.status = "ok" THEN normalize_cover_asset(bytes, None)
                        ELSE Failure(f1.returned.value)
              got == CoverOrWarning(result)
          IN /\ requests' = IF first
                            THEN Append(requests, [kind |-> "cover", target |-> 0])
                            ELSE requests
             /\ IF f1.status = "running"
                THEN /\ fetch' = f1
                     /\ UNCHANGED <<pc, cover_asset, warnings>>
                ELSE /\ fetch' = IdleFetch
                     /\ cover_asset' = got.cover
                     /\ warnings' = got.warnings
                     /\ pc' = "Assembling"
    /\ UNCHANGED <<request, error, dir_created, selected, ordered, idx, succeeded,
                   failed, contents, output_files, files, ord, notes, body, render, strip>>

TxtWrites ==
    IF "Txt" \in request.formats
    THEN write_txt_outputs(trim(request.output_dir), request.publication_title,
                           contents, request.metadata_fields, request.granularity)
    ELSE <<>>

EpubWrites ==
    IF "Epub" \in request.formats
    THEN write_epub_outputs(trim(request.output_dir), request.publication_title,
                            unwrap_or(request.publication_author, UnknownAuthor),
                            contents, request.metadata_fields, request.granularity,
                            cover_asset)
    ELSE <<>>

CompleteFile(w) == [path |-> w.path, complete |-> TRUE, content |-> w.content]

PartialFile(w) == [path |-> w.path, complete |-> FALSE, content |-> w.content]

\* The message of a failed write: the context of fs::write for a text file;
\* for an archive the context of File::create when no file was made, else the
\* error of the zip writer.
WriteError(is_txt, granularity, partial) ==
    IF is_txt
    THEN IF granularity = "PerPost" THEN "Failed writing TXT file."
         ELSE "Failed writing combined TXT file."
    ELSE IF partial THEN "zip error" ELSE "Failed to create EPUB file."

\* Lines 83-110: the flat-text files, then the e-books, then the result.  The
\* first `k` writes succeed; when that is not all of them the next one fails,
\* leaving no file or a partial one, and the `?` returns its error.
WriteOutputs ==
    /\ pc = "Assembling"
    /\ LET txt == TxtWrites
           all == txt \o EpubWrites
       IN \E k \in 0..Len(all), partial \in BOOLEAN :
             LET done == [i \in 1..k |-> CompleteFile(all[i])]
                 written == WriteAll(files, done)
             IN IF k = Len(all)
                THEN /\ files' = written
                     /\ output_files' = Paths(all)
                     /\ pc' = "Completed"
                     /\ UNCHANGED error
                ELSE /\ files' = IF partial THEN WriteFile(written, PartialFile(all[k + 1]))
                                 ELSE written
                     /\ output_files' = IF k >= Len(txt) THEN Paths(txt) ELSE <<>>
                     /\ Fail(WriteError(k < Len(txt), request.granularity, partial))
    /\ UNCHANGED <<request, dir_created, selected, ordered, idx, succeeded, failed,
                   contents, warnings, cover_asset, requests, fetch, ord, notes, body, render, strip>>

Next ==
    \/ Validate
    \/ SelectPosts
    \/ FetchPostAttempt
    \/ ResolveCoverLocal
    \/ FetchCoverAttempt
    \/ WriteOutputs

Spec == Init /\ [][Next]_vars

\* The step that ends the assembling phase, by its change of pc alone: in that
\* phase WriteOutputs is the only step and it always is such a step.
WritesReturn == pc = "Assembling" /\ pc' \in {"Completed", "Failed"}

\* The job as the runtime drives it: run_export_job is one task, every await
\* in it (a request, a body read, a sleep) and every write returns, so a step
\* that can be taken is taken.
SpecLive ==
    /\ Spec
    /\ WF_vars(Validate)
    /\ WF_vars(SelectPosts)
    /\ WF_vars(FetchPostAttempt)
    /\ WF_vars(ResolveCoverLocal)
    /\ WF_vars(FetchCoverAttempt)
    /\ WF_pc(WritesReturn)


------------------------------------------------------------------------------
(* The idle values of the job's variables, for the specifications of single
   functions.                                                                *)

JobIdle ==
    /\ request = IdleRequest
    /\ pc = "Idle"
    /\ error = NoError
    /\ dir_created = FALSE
    /\ selected = <<>>
    /\ ordered = <<>>
    /\ idx = 1
    /\ succeeded = <<>>
    /\ failed = <<>>
    /\ contents = <<>>
    /\ warnings = <<>>
    /\ cover_asset = NoCover
    /\ output_files = <<>>
    /\ files = {}
    /\ requests = <<>>

------------------------------------------------------------------------------
(* SpecOrder: order_posts on lists of at most MaxOrdPosts posts.  By date,
   every list whose titles and dates are drawn from small sets with ties, case
   differences and an unparsable date.  With a manual list, every list over
   two titles that differ in case only and two dates, where the second post
   may share the id of the first, and every manual list of at most MaxManual
   ids.  A list is drawn as the titles and dates of its positions.           *)

OrdFaces ==
    {[title |-> t, published_at |-> d] :
        t \in { <<"a">>, <<"A">>, <<"B">> }, d \in PublishedAtValues}

ManualFaces ==
    {[title |-> t, published_at |-> d] :
        t \in { <<"a">>, <<"A">> },
        d \in {[fmt |-> "junk", ms |-> 0], [fmt |-> "rfc2822", ms |-> 1]}}

\* The posts with the given titles and dates: the post at position i has id
\* i, or id 1 when it is the second post and shares the id of the first.
OrdPosts(faces, shared) ==
    [i \in 1..Len(faces) |->
        [id |-> IF shared /\ i = 2 THEN 1 ELSE i,
         title |-> faces[i].title, published_at |-> faces[i].published_at]]

OrdInput(posts, order_mode, manual_order, sort_direction) ==
    [status |-> "input", posts |-> posts, order_mode |-> order_mode,
     manual_order |-> manual_order, sort_direction |-> sort_direction, out |-> <<>>]

InitOrder ==
    /\ JobIdle
    /\ fetch = IdleFetch
    /\ notes = IdleNotes
    /\ body = IdleBody
    /\ render = IdleRender
    /\ strip = IdleStrip
    /\ \E n \in 0..MaxOrdPosts, d \in {"Desc", "Asc"} :
          \/ \E faces \in [1..n -> OrdFaces] :
                ord = OrdInput(OrdPosts(faces, FALSE), "Date", <<>>, d)
          \/ \E faces \in [1..n -> ManualFaces], shared \in BOOLEAN,
                m \in SeqsUpTo(1..MaxOrdPosts, MaxManual) :
                ord = OrdInput(OrdPosts(faces, shared), "Manual", m, d)

\* One call of order_posts.
OrderPosts ==
    /\ ord.status = "input"
    /\ \E iteration \in Iterations(ord.posts, ord.order_mode, ord.manual_order) :
          ord' = [ord EXCEPT !.status = "done",
                             !.out = order_posts(ord.posts, ord.order_mode, ord.manual_order,
                                                 ord.sort_direction, iteration)]
    /\ UNCHANGED <<jobVars, fetch, notes, body, render, strip>>

NextOrder == OrderPosts

SpecOrder == InitOrder /\ [][NextOrder]_vars

------------------------------------------------------------------------------
(* SpecFetch: one call of fetch_text_with_retries or fetch_bytes_with_retries
   with every retries argument up to MaxRetries and every answer of the
   network.                                                                  *)

InitFetch ==
    /\ JobIdle
    /\ ord = IdleOrd
    /\ notes = IdleNotes
    /\ body = IdleBody
    /\ render = IdleRender
    /\ strip = IdleStrip
    /\ \E kind \in {"text", "bytes"}, retries \in 0..MaxRetries :
          fetch = NewFetch(kind, retries)

\* One attempt of the call.
Attempt ==
    /\ fetch.status = "running"
    /\ \E outcome \in AttemptOutcomes : fetch' = FetchAttempt(fetch, outcome)
    /\ UNCHANGED <<jobVars, ord, notes, body, render, strip>>

NextFetch == Attempt

SpecFetch == InitFetch /\ [][NextFetch]_vars


------------------------------------------------------------------------------
(* SpecNotes: extract_footnotes on every fragment of at most MaxTargets
   reference targets and MaxCandidates blocks.                               *)

TargetIdPool ==
    { <<"f", "n", "1">>, <<"F", "N", "1">>, <<"f", "n", "-", "1">>,
      <<"f", "n", "2">>, <<"f", "n", "r", "e", "f", "1">> }

\* collect_footnote_target_ids returns each id once.
TargetIdLists ==
    {t \in SeqsUpTo(TargetIdPool, MaxTargets) :
        \A i, j \in 1..Len(t) : i # j => t[i] # t[j]}

BlockPool ==
    { ListItem({}, {}, <<"n">>),
      ListItem({<<"f", "n", "1">>}, {}, <<"n">>),
      ListItem({<<"f", "n", "1">>}, {}, <<"1">>),
      ListItem({<<"f", "n", "-", "1">>, <<"f", "n", "2">>}, {}, <<"n">>),
      ListItem({}, {<<"f", "n", "2">>}, <<"n">>),
      Block("flat", FALSE, {<<"f", "n", "1">>}, {}, <<"n">>),
      Block("flat", TRUE, {<<"f", "n", "2">>}, {}, <<"B", "a", "c", "k", ".">>),
      Block("block", TRUE, {<<"f", "n", "1">>}, {}, <<"n">>) }

InitNotes ==
    /\ JobIdle
    /\ fetch = IdleFetch
    /\ ord = IdleOrd
    /\ body = IdleBody
    /\ render = IdleRender
    /\ strip = IdleStrip
    /\ \E target_ids \in TargetIdLists, blocks \in SeqsUpTo(BlockPool, MaxCandidates) :
          notes = [status |-> "input", target_ids |-> target_ids, blocks |-> blocks,
                   candidates |-> <<>>, matched |-> <<>>, pairs |-> <<>>,
                   ordered_ref_targets |-> <<>>,
                   out |-> <<>>]

\* One call of extract_footnotes.
ExtractFootnotes ==
    /\ notes.status = "input"
    /\ LET done(r) == [notes EXCEPT !.status = "done", !.matched = r.matched,
                                    !.candidates = r.candidates, !.pairs = r.pairs,
                                    !.ordered_ref_targets = r.ordered_ref_targets,
                                    !.out = r.notes]
       IN notes' = done(extract_footnotes(notes.target_ids, notes.blocks))
    /\ UNCHANGED <<jobVars, fetch, ord, body, render, strip>>

NextNotes == ExtractFootnotes

SpecNotes == InitNotes /\ [][NextNotes]_vars


------------------------------------------------------------------------------
(* SpecBody: process_body_for_exports on every body of at most MaxAnchors
   anchors and MaxBlocks footnote blocks.                                    *)

MaxAnchors == 2

MaxBlocks == 2

AnchorPool ==
    { [style |-> "class_href", href |-> <<"#", "f", "n", "1">>],
      [style |-> "class_href", href |-> <<"#", "n", "1">>],
      [style |-> "href_class", href |-> <<"u", "#", "f", "n", "2">>],
      [style |-> "plain", href |-> <<"#", "f", "n", "1">>],
      [style |-> "plain", href |-> <<"#", "f", "n", "2">>],
      [style |-> "plain", href |-> <<"#", "f", "n", "-", "1">>],
      [style |-> "plain", href |-> <<"u">>] }

BodyBlockPool ==
    { ListItem({<<"f", "n", "1">>}, {}, <<"n">>),
      ListItem({<<"f", "n", "2">>}, {}, <<"a", "&", "b">>),
      ListItem({<<"n", "1">>}, {<<"f", "n", "2">>}, <<"n">>) }

InitBody ==
    /\ JobIdle
    /\ fetch = IdleFetch
    /\ ord = IdleOrd
    /\ notes = IdleNotes
    /\ render = IdleRender
    /\ strip = IdleStrip
    /\ \E n \in 0..MaxAnchors, m \in 0..MaxBlocks, block_markup \in BOOLEAN :
          \E anchors \in [1..n -> AnchorPool], blocks \in [1..m -> BodyBlockPool] :
             body = [status |-> "input", anchors |-> anchors, blocks |-> blocks,
                     block_markup |-> block_markup, footnotes |-> <<>>,
                     html_with_markers |-> <<>>,
                     plain_text |-> [items |-> <<>>, footnotes |-> <<>>],
                     epub_body |-> [items |-> <<>>, footnotes |-> <<>>]]

\* One call of process_body_for_exports.
ProcessBody ==
    /\ body.status = "input"
    /\ LET done(r) == [body EXCEPT !.status = "done", !.footnotes = r.footnotes,
                                   !.html_with_markers = r.html_with_markers,
                                   !.plain_text = r.plain_text,
                                   !.epub_body = r.epub_body]
       IN body' = done(process_body_for_exports(body.anchors, body.blocks,
                                                body.block_markup))
    /\ UNCHANGED <<jobVars, fetch, ord, notes, render, strip>>

NextBody == ProcessBody

SpecBody == InitBody /\ [][NextBody]_vars


------------------------------------------------------------------------------
(* SpecRender: the per-post assembly of one extracted post, render_txt_post
   for its text file and then write_epub for its archive, for every selection
   of metadata fields, texts with and without the characters escape_xml
   replaces, optional fields present or absent, and every kind of cover.     *)

TextPool == { <<"a">>, <<"&", "<", ">", "\"", "'">> }

\* The extracted post whose title is `title`, whose other texts are `text` and
\* whose optional fields are present or not.
RenderedPost(title, text, present) ==
    LET opt(v) == IF present THEN Some(v) ELSE None
        processed_body ==
            process_body_for_exports(
                << [style |-> "plain", href |-> <<"#", "f", "n", "1">>] >>,
                << ListItem({<<"f", "n", "1">>}, {}, <<"n">> \o text) >>,
                present)
        post_content(processed) ==
            [summary |-> [id |-> 1, title |-> title, published_at |-> text, url |-> text,
                          author |-> opt(text), tags |-> opt(<<text, <<"a">> >>),
                          subtitle |-> opt(text), summary |-> opt(text)],
             plain_text |-> processed.plain_text,
             epub_body |-> processed.epub_body,
             reading_time_minutes |-> opt(12),
             summary_text |-> opt(text)]
    IN post_content(processed_body)

\* The covers resolve_cover returns: none, one whose format the bytes decide,
\* and two whose media type comes from the hint of a data URL or from the
\* default.
RenderCovers ==
    { NoCover,
      normalize_cover_asset("png", Some("image/a&b")).value,
      normalize_cover_asset("unknown", Some("image/a&b")).value,
      normalize_cover_asset("unknown", None).value }

InitRender ==
    /\ JobIdle
    /\ fetch = IdleFetch
    /\ ord = IdleOrd
    /\ notes = IdleNotes
    /\ body = IdleBody
    /\ strip = IdleStrip
    /\ \E title \in TextPool, text \in TextPool, present \in BOOLEAN,
          metadata_fields \in SUBSET MetadataFields, cover \in RenderCovers :
          render = [status |-> "input", post |-> RenderedPost(title, text, present),
                    metadata_fields |-> metadata_fields, cover |-> cover,
                    txt |-> None, archive |-> None]

\* The body of the PerPost branch of write_txt_outputs for the post.
RenderTxtPost ==
    /\ render.status = "input"
    /\ render' = [render EXCEPT !.status = "txt",
                                !.txt = Some(render_txt_post(render.post, render.metadata_fields))]
    /\ UNCHANGED <<jobVars, fetch, ord, notes, body, strip>>

\* The body of the PerPost branch of write_epub_outputs for the post.
WriteEpub ==
    /\ render.status = "txt"
    /\ render' = [render EXCEPT
          !.status = "done",
          !.archive = Some(write_epub(render.post.summary.title,
                                      unwrap_or(render.post.summary.author, UnknownAuthor),
                                      <<render.post>>, render.metadata_fields, render.cover))]
    /\ UNCHANGED <<jobVars, fetch, ord, notes, body, strip>>

NextRender == RenderTxtPost \/ WriteEpub

SpecRender == InitRender /\ [][NextRender]_vars


------------------------------------------------------------------------------
(* remove_footnote_containers (substack.rs), on a body given as its tags  *)
(* and the text between them                                               *)

\* The tags remove_footnote_containers looks for, in the order of its loop.
ContainerTags == <<"section", "div", "aside", "ol", "ul">>

\* An opening tag `<tag ...>`: `mark` tells what its class attribute names
\* ("footnote": the word footnote or footnotes; "content": footnote-content
\* only; "none": no attribute the pattern looks for), `upper` that the tag
\* name is written in capitals.
OpenTag(tag, mark, upper) == [kind |-> "open", tag |-> tag, mark |-> mark, upper |-> upper]

\* A closing tag `</tag>`, in either case of letters.
CloseTag(tag) == [kind |-> "close", tag |-> tag, mark |-> "none", upper |-> FALSE]

\* Text without a tag of ContainerTags.
PlainText == [kind |-> "text", tag |-> "", mark |-> "none", upper |-> FALSE]

TokenPool ==
    { OpenTag("div", "footnote", FALSE), OpenTag("div", "content", FALSE),
      OpenTag("div", "none", FALSE), OpenTag("div", "none", TRUE),
      CloseTag("div"),
      OpenTag("ol", "footnote", FALSE), CloseTag("ol"),
      PlainText }

\* The least element of a set of positions, 0 when it is empty.
FirstOf(S) == IF S = {} THEN 0 ELSE CHOOSE i \in S : \A j \in S : i <= j

\* open_regex.find(&out): the first opening tag of `tag`, in either case,
\* with an attribute whose value contains footnote.
find_open(out, tag) ==
    FirstOf({i \in DOMAIN out : out[i].kind = "open" /\ out[i].tag = tag /\ out[i].mark # "none"})

\* The test that ends the loop of the tag: a div whose tag text contains
\* footnote-content and whose class has not the word footnote or footnotes.
is_child_only(token, tag) == tag = "div" /\ token.mark = "content"

\* rest[cursor..].find(&opening_prefix): the text is searched as written, so
\* only an opening tag in small letters is found.
find_next_open(out, tag, cursor) ==
    FirstOf({j \in cursor..Len(out) : out[j].kind = "open" /\ out[j].tag = tag /\ ~out[j].upper})

\* ci.find(&closing_tag): the text is searched in lower case.
find_next_close(out, tag, cursor) ==
    FirstOf({j \in cursor..Len(out) : out[j].kind = "close" /\ out[j].tag = tag})

\* The walk that counts the nesting depth, from `cursor`: the position of the
\* closing tag at which the depth reaches zero, 0 when the walk ends before.
RECURSIVE closing_index(_, _, _, _)
closing_index(out, tag, depth, cursor) ==
    IF cursor > Len(out) THEN 0
    ELSE LET walk(next_open, next_close) ==
                 CASE next_open # 0 /\ next_close # 0 /\ next_open < next_close ->
                          closing_index(out, tag, depth + 1, next_open + 1)
                   [] next_close # 0 ->
                          IF depth - 1 = 0 THEN next_close
                          ELSE closing_index(out, tag, depth - 1, next_close + 1)
                   [] next_open # 0 ->
                          closing_index(out, tag, depth, next_open + 1)
                   [] OTHER -> 0
         IN walk(find_next_open(out, tag, cursor), find_next_close(out, tag, cursor))

\* tokens without the positions first..last.
Without(tokens, first, last) ==
    SubSeq(tokens, 1, first - 1) \o SubSeq(tokens, last + 1, Len(tokens))

\* The span one iteration of the loop removes for `tag`: [first, last], or
\* first = 0 when the iteration leaves the loop of the tag instead (no match,
\* a match that is a child only, or a walk that does not reach depth zero).
removed_span(out, tag) ==
    LET span(m) ==
            IF m = 0 \/ is_child_only(out[m], tag) THEN [first |-> 0, last |-> 0]
            ELSE LET closed(c) == IF c = 0 THEN [first |-> 0, last |-> 0]
                                  ELSE [first |-> m, last |-> c]
                 IN closed(closing_index(out, tag, 1, m + 1))
    IN span(find_open(out, tag))

InitStrip ==
    /\ JobIdle
    /\ fetch = IdleFetch
    /\ ord = IdleOrd
    /\ notes = IdleNotes
    /\ body = IdleBody
    /\ render = IdleRender
    /\ \E n \in 0..MaxTokens : \E input \in [1..n -> TokenPool] :
          strip = [status |-> "running", input |-> input, out |-> input, tag |-> 1]

\* An iteration of the inner loop that removes a container from `out`.
RemoveContainer ==
    /\ strip.status = "running"
    /\ removed_span(strip.out, ContainerTags[strip.tag]).first # 0
    /\ strip' = [strip EXCEPT
          !.out = Without(@, removed_span(strip.out, ContainerTags[strip.tag]).first,
                             removed_span(strip.out, ContainerTags[strip.tag]).last)]
    /\ UNCHANGED <<jobVars, fetch, ord, notes, body, render>>

\* An iteration of the inner loop that breaks: the outer loop goes to the next
\* tag, and the function returns `out` after the last.
NextContainerTag ==
    /\ strip.status = "running"
    /\ removed_span(strip.out, ContainerTags[strip.tag]).first = 0
    /\ strip' = IF strip.tag < Len(ContainerTags)
                THEN [strip EXCEPT !.tag = @ + 1]
                ELSE [strip EXCEPT !.status = "done"]
    /\ UNCHANGED <<jobVars, fetch, ord, notes, body, render>>

NextStrip == RemoveContainer \/ NextContainerTag

\* The function is straight-line code: a loop iteration that can run does.
SpecStrip == InitStrip /\ [][NextStrip]_vars /\ WF_vars(NextStrip)


------------------------------------------------------------------------------
(* Claims about run_export_job, checked under Spec *)

Range(seq) == {seq[i] : i \in 1..Len(seq)}

Ids(posts) == [i \in 1..Len(posts) |-> posts[i].id]

FailedIds == [i \in 1..Len(failed) |-> failed[i].post_id]

\* The subsequence of `seq` whose elements are in S.
Restrict(seq, S) == SelectSeq(seq, LAMBDA x : x \in S)

ValidationErrors ==
    { "At least one format must be selected.", "Output directory is required.",
      "Failed to create output directory.", "No specific posts selected.",
      "No posts matched the current selection." }

WriteErrors ==
    { "Failed writing TXT file.", "Failed writing combined TXT file.",
      "Failed to create EPUB file.", "zip error" }

\* The posts the request selects, read off the request alone.
RequestedPosts ==
    IF request.mode = "EntireProfile" THEN Range(request.posts)
    ELSE {p \in Range(request.posts) : p.id \in request.selected_post_ids}

\* C1: no fetch (of a post or of the cover) is issued unless a format is
\* selected, the trimmed output directory is non-empty and was created, and
\* the selection holds a post; a job that lacks one of these goes from
\* validation or selection straight to Failed, with a validation error and no
\* fetch issued.
C1_NoFetchBeforeValidation ==
    LET valid == /\ request.formats # {}
                 /\ \E i \in 1..Len(request.output_dir) : request.output_dir[i] # " "
                 /\ dir_created
                 /\ RequestedPosts # {}
    IN /\ (requests # <<>> \/ fetch.status # "idle") => valid
       /\ (pc \notin {"Validating", "Selecting"} /\ ~valid) =>
             /\ pc = "Failed"
             /\ error.kind \in ValidationErrors
             /\ requests = <<>>
             /\ files = {}
       /\ (pc = "Selecting") => (request.formats # {} /\ dir_created)

\* C1 witness: a job stopped by an empty selection, with no fetch issued.
C1_Witness ==
    /\ pc = "Failed"
    /\ error.kind = "No posts matched the current selection."
    /\ request.posts # <<>>
    /\ dir_created
    /\ requests = <<>>

\* The fetch loop is over: every post of `ordered` has been processed.
LoopDone == ordered # <<>> /\ idx = Len(ordered) + 1

PostRequests == SelectSeq(requests, LAMBDA r : r.kind = "post")

\* C2: during and after the fetch loop each post before idx was fetched once
\* and is in exactly one of succeeded and failed (with the error of its
\* fetch); the loop only ends at the end of `ordered`, whatever failed; the
\* contents are those of the succeeded posts, and no failed post is in a file.
C2_EveryPostInOneList ==
    LET done == Ids(SubSeq(ordered, 1, idx - 1))
    IN /\ pc \in {"Fetching", "Rendering", "Assembling", "Completed"} \/ LoopDone =>
          /\ \A i \in 1..Len(done) :
                /\ (done[i] \in Range(succeeded)) # (done[i] \in Range(FailedIds))
                /\ Cardinality({j \in 1..Len(succeeded) : succeeded[j] = done[i]})
                     + Cardinality({j \in 1..Len(failed) : failed[j].post_id = done[i]}) = 1
          /\ Len(succeeded) + Len(failed) = idx - 1
          /\ \A j \in 1..Len(failed) : failed[j].reason.kind # ""
          /\ [i \in 1..Len(contents) |-> contents[i].summary.id] = succeeded
          /\ Len(PostRequests) = (IF fetch.status = "running" /\ pc = "Fetching"
                                  THEN idx ELSE idx - 1)
          /\ \A i \in 1..Len(PostRequests) : PostRequests[i].target = ordered[i].url
       /\ pc \in {"Rendering", "Assembling", "Completed"} => LoopDone
       /\ (pc = "Failed" /\ requests # <<>>) => LoopDone
       /\ pc = "Fetching" => idx <= Len(ordered)
       /\ \A f \in files : \A i \in 1..Len(failed) :
             /\ f.content.kind = "txt" => failed[i].post_id \notin Range(f.content.sections)
             /\ f.content.kind = "epub" => failed[i].post_id \notin Range(f.content.chapters)

\* C2 witness: a completed job whose first post failed and whose second
\* succeeded and was written.
C2_Witness ==
    /\ pc = "Completed"
    /\ Len(ordered) = 2
    /\ FailedIds = <<ordered[1].id>>
    /\ succeeded = <<ordered[2].id>>
    /\ files # {}

\* C3: when the loop is over and every post failed, the job is Failed with the
\* all-posts-failed error, no file was written, no id succeeded, and cover
\* resolution and assembly never started (no cover fetch, no warning, no
\* cover, no output file).
C3_AllPostsFailed ==
    (LoopDone /\ Len(failed) = Len(ordered)) =>
        /\ pc = "Failed"
        /\ error.kind = "All post downloads failed; no output generated."
        /\ files = {}
        /\ output_files = <<>>
        /\ succeeded = <<>>
        /\ contents = <<>>
        /\ \A i \in 1..Len(requests) : requests[i].kind = "post"
        /\ warnings = <<>>
        /\ cover_asset = NoCover

\* C3 witness: a job of two posts, both failed.
C3_Witness ==
    /\ pc = "Failed"
    /\ Len(ordered) = 2
    /\ Len(failed) = 2
    /\ error.kind = "All post downloads failed; no output generated."

\* C4: in explicit-subset mode, once selection has run, `selected` is the
\* request's posts whose id is requested, in the request's order; when no id
\* is requested or none is the id of a post, the job is Failed with one of the
\* two selection errors and no file was written.
C4_ExplicitSubset ==
    (request.mode = "SpecificPosts" /\ pc \notin {"Validating", "Selecting"}
        /\ error.kind \notin { "At least one format must be selected.",
                               "Output directory is required.",
                               "Failed to create output directory." }) =>
        /\ Range(selected) = RequestedPosts
        /\ \A i, j \in 1..Len(selected) : i < j =>
              \E a, b \in 1..Len(request.posts) :
                 a < b /\ request.posts[a] = selected[i] /\ request.posts[b] = selected[j]
        /\ RequestedPosts = {} =>
              /\ pc = "Failed"
              /\ error.kind \in {"No specific posts selected.",
                                 "No posts matched the current selection."}
              /\ files = {}
              /\ output_files = <<>>

\* C4 witness: a proper, non-empty subset was selected from a request that
\* also names an id of no post.
C4_Witness ==
    /\ request.mode = "SpecificPosts"
    /\ pc = "Fetching"
    /\ Len(selected) = 1
    /\ Len(request.posts) = 2
    /\ (MaxPosts + 1) \in request.selected_post_ids


\* The job is past cover resolution: assembling, completed, or failed by a
\* write of the assembly.
PastCover ==
    \/ pc \in {"Assembling", "Completed"}
    \/ pc = "Failed" /\ error.kind \in WriteErrors

CoverRequested == \E i \in 1..Len(requests) : requests[i].kind = "cover"

CoverEntryBases == {"OEBPS/images/cover.", "OEBPS/text/cover"}

\* The archive `e` has no cover image entry, cover page, cover manifest item,
\* cover spine entry or cover navigation link.
NoCoverParts(e) ==
    /\ \A i \in 1..Len(e.entries) : e.entries[i].name.base \notin CoverEntryBases
    /\ \A i \in 1..Len(e.manifest) : e.manifest[i].id.base \notin {"cover-image", "cover-page"}
    /\ \A i \in 1..Len(e.spine) : e.spine[i].base # "cover-page"
    /\ \A i \in 1..Len(e.nav) : e.nav[i].base # "text/cover"

\* C5: a failed cover acquisition (custom data URL missing or undecodable,
\* cover bytes empty, cover fetch failed) with a post extracted never fails the
\* job: the job goes on to assembly with no cover and exactly one warning, the
\* error of the acquisition; it completes unless a file write fails, and no
\* archive written has a cover image entry, cover page, cover manifest item,
\* cover spine entry or cover navigation link.
C5_CoverFailureIsAWarning ==
    /\ Len(warnings) <= 1
    /\ warnings # <<>> =>
          /\ PastCover
          /\ contents # <<>>
          /\ "Epub" \in request.formats
          /\ cover_asset = NoCover
          /\ \A f \in files : f.content.kind = "epub" => NoCoverParts(f.content)
          /\ pc = "Completed" => \E f \in files : f.content.kind = "epub" /\ f.complete
    /\ (PastCover /\ "Epub" \in request.formats /\ request.cover_mode = "Custom"
          /\ ~resolve_cover_custom(request).ok) =>
          warnings = <<resolve_cover_custom(request).error>>
    /\ (PastCover /\ CoverRequested /\ cover_asset = NoCover) => Len(warnings) = 1
    /\ (pc = "Failed" /\ error.kind \notin WriteErrors) => warnings = <<>>

\* C5 witness: a completed job whose cover fetch failed: one warning, and an
\* archive written.
C5_Witness ==
    /\ pc = "Completed"
    /\ CoverRequested
    /\ Len(warnings) = 1
    /\ warnings[1].kind = "network"
    /\ \E f \in files : f.content.kind = "epub" /\ NoCoverParts(f.content)

\* The per-post paths of the succeeded posts, in the order of `succeeded`,
\* each named by the title its content has.
SucceededPaths(ext) ==
    [i \in 1..Len(succeeded) |->
        [dir |-> trim(request.output_dir),
         publication |-> sanitize_filename(request.publication_title),
         name |-> sanitize_filename(
                     (CHOOSE c \in Range(contents) : c.summary.id = succeeded[i]).summary.title),
         ext |-> ext]]

\* C8: the output keeps the order of `ordered`, the result of order_posts on
\* the selection: succeeded and failed are `ordered` restricted to their posts,
\* the sections of a combined text file and the chapters of a combined archive
\* are the succeeded posts in that order, and the per-post output file list
\* names the succeeded posts in that order, per format.
C8_OutputKeepsOrder ==
    /\ ordered # <<>> =>
          \E iteration \in Iterations(selected, request.order_mode, request.manual_order) :
             ordered = order_posts(selected, request.order_mode, request.manual_order,
                                   request.sort_direction, iteration)
    /\ succeeded = Restrict(Ids(ordered), Range(succeeded))
    /\ FailedIds = Restrict(Ids(ordered), Range(FailedIds))
    /\ [i \in 1..Len(contents) |-> contents[i].summary.id]
          = Restrict(Ids(ordered), Range(succeeded))
    /\ request.granularity = "Combined" =>
          \A f \in files :
             /\ f.content.kind = "txt" => f.content.sections = succeeded
             /\ f.content.kind = "epub" => f.content.chapters = succeeded
    /\ (request.granularity = "PerPost" /\ pc = "Completed") =>
          output_files =
             (IF "Txt" \in request.formats THEN SucceededPaths("txt") ELSE <<>>)
             \o (IF "Epub" \in request.formats THEN SucceededPaths("epub") ELSE <<>>)

\* C8 witness: a completed combined job of two succeeded posts whose order is
\* not that of the request, with both combined files written.
C8_Witness ==
    /\ pc = "Completed"
    /\ request.granularity = "Combined"
    /\ Len(succeeded) = 2
    /\ Ids(ordered) # Ids(request.posts)
    /\ \E f \in files : f.content.kind = "txt" /\ f.content.sections = succeeded
    /\ \E f \in files : f.content.kind = "epub" /\ f.content.chapters = succeeded


\* The archives written in full.
Archives == {f \in files : f.complete /\ f.content.kind = "epub"}

\* The chapter files among the entries of the archive `e`.
ChapterFiles(e) ==
    {i \in 1..Len(e.entries) : e.entries[i].name.base = "OEBPS/text/chapter-"}

\* C15: in every archive written, the first entry is the mimetype declaration,
\* stored without compression, and the spine has one item per chapter file,
\* plus one when the job has a cover.
C15_MimetypeFirstAndSpineCount ==
    \A f \in Archives :
        /\ f.content.entries[1].name = [base |-> "mimetype", n |-> 0, ext |-> ""]
        /\ f.content.entries[1].method = "Stored"
        /\ \A i \in 2..Len(f.content.entries) : f.content.entries[i].name.base # "mimetype"
        /\ Len(f.content.spine) = Cardinality(ChapterFiles(f.content))
                                  + (IF cover_asset.present THEN 1 ELSE 0)

\* C15 witness: a combined archive of two chapters with a cover: its spine has
\* three items.
C15_Witness ==
    \E f \in Archives :
        /\ cover_asset.present
        /\ Cardinality(ChapterFiles(f.content)) = 2
        /\ Len(f.content.spine) = 3

\* The archive entry a manifest href names: hrefs are relative to OEBPS/.
EntryOfHref(href) ==
    [base |-> CASE href.base = "text/chapter-" -> "OEBPS/text/chapter-"
                [] href.base = "text/cover" -> "OEBPS/text/cover"
                [] href.base = "images/cover." -> "OEBPS/images/cover."
                [] href.base = "nav" -> "OEBPS/nav"
                [] OTHER -> "",
     n |-> href.n, ext |-> href.ext]

\* The href is that of a manifest item of `e` whose file is an entry of `e`,
\* and the item has the id given.
ManifestFile(e, id, href) ==
    /\ \E i \in 1..Len(e.manifest) : e.manifest[i].id = id /\ e.manifest[i].href = href
    /\ \E i \in 1..Len(e.entries) : e.entries[i].name = EntryOfHref(href)

\* The posts write_epub_outputs gave write_epub for the file at `path`: all of
\* them for the combined archive, one post of that path otherwise.
PostsOfArchive(path) ==
    IF request.granularity = "Combined" THEN {contents}
    ELSE {<<contents[i]>> : i \in {k \in 1..Len(contents) :
              sanitize_filename(contents[k].summary.title) = path.name}}

\* C16: in every archive written, the spine is the cover page (when the job
\* has a cover) and then chapter-1 .. chapter-n, chapter-i holding the i-th
\* post given to write_epub; the navigation links are those items in that
\* order; each is a manifest item whose file is an entry of the archive.
C16_SpineAndNavInReadingOrder ==
    \A f \in Archives :
        LET e == f.content
            c == IF cover_asset.present THEN 1 ELSE 0
            n == Len(e.spine) - c
        IN /\ n >= 1
           /\ Len(e.nav) = Len(e.spine)
           /\ cover_asset.present =>
                 /\ e.spine[1] = [base |-> "cover-page", n |-> 0]
                 /\ e.nav[1] = [base |-> "text/cover", n |-> 0, ext |-> "xhtml"]
           /\ \A i \in 1..n :
                 /\ e.spine[c + i] = [base |-> "chapter-", n |-> i]
                 /\ e.nav[c + i] = [base |-> "text/chapter-", n |-> i, ext |-> "xhtml"]
           /\ \A k \in 1..Len(e.spine) : ManifestFile(e, e.spine[k], e.nav[k])
           /\ \E posts \in PostsOfArchive(f.path) :
                 /\ Len(posts) = n
                 /\ \A i \in 1..n :
                       /\ e.chapters[i] = posts[i].summary.id
                       /\ e.chapter_docs[i].body = posts[i].epub_body

\* C16 witness: a combined archive with a cover whose two chapters are the
\* posts in an order other than that of the request.
C16_Witness ==
    \E f \in Archives :
        /\ cover_asset.present
        /\ request.granularity = "Combined"
        /\ f.content.chapters = <<2, 1>>
        /\ Len(f.content.nav) = 3


SupportedMediaTypes == {"image/png", "image/jpeg", "image/gif", "image/webp"}

\* The file extension of a supported media type.
ExtensionOf(media_type) ==
    CASE media_type = "image/png" -> "png"
      [] media_type = "image/jpeg" -> "jpg"
      [] media_type = "image/gif" -> "gif"
      [] media_type = "image/webp" -> "webp"
      [] OTHER -> ""

\* The media type of the format the first bytes of an image show.
MediaTypeOfMagic(bytes) ==
    CASE bytes = "png" -> "image/png"
      [] bytes = "jpeg" -> "image/jpeg"
      [] bytes = "gif" -> "image/gif"
      [] bytes = "webp" -> "image/webp"
      [] OTHER -> ""

\* C18: a cover resolved from non-empty bytes has a media type of the fixed
\* set image/png, image/jpeg, image/gif, image/webp and the extension of that
\* type, and the type is that of the magic bytes whenever they show one of
\* these formats, whatever content type was declared.
C18_CoverMediaTypeSupported ==
    cover_asset.present =>
        /\ cover_asset.bytes # "empty"
        /\ cover_asset.media_type \in SupportedMediaTypes
        /\ cover_asset.extension = ExtensionOf(cover_asset.media_type)
        /\ MediaTypeOfMagic(cover_asset.bytes) # "" =>
              cover_asset.media_type = MediaTypeOfMagic(cover_asset.bytes)

\* C19: a completed per-post job has written one file per succeeded post and
\* selected format: the paths of output_files are pairwise different, and so
\* many files are in the output directory.
C19_OneFilePerPostAndFormat ==
    (pc = "Completed" /\ request.granularity = "PerPost") =>
        /\ Len(output_files) = Len(succeeded) * Cardinality(request.formats)
        /\ \A i, j \in 1..Len(output_files) : i # j => output_files[i] # output_files[j]
        /\ Cardinality(files) = Len(succeeded) * Cardinality(request.formats)


------------------------------------------------------------------------------
(* Claims about order_posts, checked under SpecOrder *)

\* The timestamp a post sorts by: the instant of a well-formed date, else 0.
Ts(p) == IF p.published_at.fmt = "junk" THEN 0 ELSE p.published_at.ms

TsOf(posts) == [i \in 1..Len(posts) |-> Ts(posts[i])]

\* a may stand before b: by timestamp in the direction, and on equal
\* timestamps by ascending lower-cased title.
InDateOrder(a, b, sort_direction) ==
    IF Ts(a) # Ts(b)
    THEN IF sort_direction = "Desc" THEN Ts(a) > Ts(b) ELSE Ts(a) < Ts(b)
    ELSE StrCmp(to_lowercase(a.title), to_lowercase(b.title)) # "Greater"

SameKeys(a, b) == Ts(a) = Ts(b) /\ to_lowercase(a.title) = to_lowercase(b.title)

\* out is posts rearranged into date order, posts with the same keys in the
\* order they had in posts.
IsStableDateSort(out, posts, sort_direction) ==
    /\ Len(out) = Len(posts)
    /\ \E pi \in Arrangements(1..Len(posts)) :
          /\ \A i \in 1..Len(posts) : out[i] = posts[pi[i]]
          /\ \A i, j \in 1..Len(posts) : i < j =>
                /\ InDateOrder(out[i], out[j], sort_direction)
                /\ SameKeys(out[i], out[j]) => pi[i] < pi[j]

OtherDirection(sort_direction) == IF sort_direction = "Desc" THEN "Asc" ELSE "Desc"

ByDateCall == ord.status = "done" /\ (ord.order_mode = "Date" \/ ord.manual_order = <<>>)

\* C6: in by-date mode the result is the posts in timestamp order of the
\* requested direction, an unparsable date counting as 0; posts of one
\* timestamp are in ascending case-insensitive title order in both directions,
\* and posts equal on both keys keep their input order; against the result of
\* the other direction the timestamps are reversed and the posts of each
\* timestamp are in the same order.
C6_ByDateOrder ==
    ByDateCall =>
        LET other == sort_by(ord.posts, OtherDirection(ord.sort_direction))
        IN /\ IsStableDateSort(ord.out, ord.posts, ord.sort_direction)
           /\ TsOf(ord.out) = Reverse(TsOf(other))
           /\ \A t \in {Ts(ord.posts[i]) : i \in 1..Len(ord.posts)} :
                 SelectSeq(ord.out, LAMBDA p : Ts(p) = t)
                    = SelectSeq(other, LAMBDA p : Ts(p) = t)

\* C6 witness: a descending sort that moved its posts: an unparsable date
\* stands before a date before the epoch, and two posts equal on both keys
\* stand as they did in the input, "a" before "A", against the order of the
\* titles as written.
C6_Witness ==
    /\ ByDateCall
    /\ ord.sort_direction = "Desc"
    /\ ord.out # ord.posts
    /\ \E i, j \in 1..Len(ord.out) :
          /\ i < j
          /\ ord.out[i].published_at.fmt = "junk"
          /\ ord.out[j].published_at.ms = -1
    /\ \E i, j \in 1..Len(ord.out) :
          /\ i < j
          /\ SameKeys(ord.out[i], ord.out[j])
          /\ ord.out[i].title = <<"a">>
          /\ ord.out[j].title = <<"A">>

ManualCall == ord.status = "done" /\ ord.order_mode = "Manual" /\ ord.manual_order # <<>>

\* The posts named by the manual list, in the order of the list (an id
\* counts where it first stands).
RECURSIVE NamedPosts(_, _, _)
NamedPosts(posts, manual_order, taken) ==
    IF manual_order = <<>> THEN <<>>
    ELSE LET id == Head(manual_order)
         IN (IF id \in taken THEN <<>> ELSE SelectSeq(posts, LAMBDA p : p.id = id))
            \o NamedPosts(posts, Tail(manual_order), taken \cup {id})

UnnamedPosts(posts, manual_order) ==
    SelectSeq(posts, LAMBDA p : p.id \notin Range(manual_order))

\* C7: in manual mode the result is the posts named in the manual list, in the
\* order of the list (ids of no post skipped), followed by all posts not named
\* in the list in by-date order.
C7_ManualThenDate ==
    ManualCall =>
        ord.out = NamedPosts(ord.posts, ord.manual_order, {})
                  \o sort_by(UnnamedPosts(ord.posts, ord.manual_order), ord.sort_direction)

------------------------------------------------------------------------------
(* Claims about fetch_text_with_retries and fetch_bytes_with_retries, checked
   under SpecFetch *)

\* C9: the call returns success at the first attempt that succeeds; it returns
\* an error only after retries + 1 attempts, all failed, and the error is that
\* of the last attempt (the error of a body read names no attempt, the error
\* of a request names its own); the wait after the k-th failed attempt (k from
\* 0) is the base delay times 2^k.
C9_ErrorOnlyAfterAllAttempts ==
    /\ fetch.status = "ok" => fetch.sent = Len(fetch.sleeps) + 1
    /\ fetch.status = "err" =>
          /\ fetch.sent = fetch.retries + 1
          /\ fetch.returned.some
          /\ fetch.returned.value.attempt \in {0, fetch.sent}
    /\ fetch.status # "idle" =>
          \A k \in 0..(Len(fetch.sleeps) - 1) : fetch.sleeps[k + 1] = BaseDelayMs * 2^k


------------------------------------------------------------------------------
(* Claims about extract_footnotes, checked under SpecNotes *)

\* C10: the numbers of the entries extract_footnotes returns are pairwise
\* distinct and are exactly 1..N for N entries, whether the entries come from
\* the matching by id or from the matching by position.
C10_NumbersAreOneToN ==
    notes.status = "done" =>
        /\ \A i, j \in 1..Len(notes.out) :
              i # j => notes.out[i].number # notes.out[j].number
        /\ {notes.out[i].number : i \in 1..Len(notes.out)} = 1..Len(notes.out)
        /\ \A i, j \in 1..Len(notes.matched) :
              i # j => notes.matched[i].number # notes.matched[j].number
        /\ {notes.matched[i].number : i \in 1..Len(notes.matched)} = 1..Len(notes.matched)

\* C10 witness: two entries matched by position, after a first loop that kept
\* three targets and matched none of the two blocks.
C10_Witness ==
    /\ notes.status = "done"
    /\ notes.matched = <<>>
    /\ Len(notes.ordered_ref_targets) = 3
    /\ Len(notes.out) = 2
    /\ Len(notes.blocks) = 2


------------------------------------------------------------------------------
(* Claims about process_body_for_exports, checked under SpecBody *)

\* The fragment an anchor of the main markup refers to.
RefTarget(anchor) == extract_fragment_id_from_href(anchor.href)

\* The position of the first anchor of the main markup that refers to id, 0
\* when none does.
FirstRef(id) ==
    LET at == {i \in 1..Len(body.anchors) : RefTarget(body.anchors[i]) = Some(id)}
    IN IF at = {} THEN 0 ELSE CHOOSE i \in at : \A j \in at : i <= j

EntryIds == {body.footnotes[i].id : i \in 1..Len(body.footnotes)}

\* C11: when the first reference to target A stands before the first reference
\* to target B in the main markup and both targets became footnotes, the
\* footnote of A has the smaller number, whatever the styles of the anchors.
C11_NumbersFollowFirstReference ==
    body.status = "done" =>
        \A i, j \in 1..Len(body.footnotes) :
            LET a == body.footnotes[i]
                b == body.footnotes[j]
            IN (FirstRef(a.id) > 0 /\ FirstRef(a.id) < FirstRef(b.id))
                   => a.number < b.number

\* The numbers of the references of a rendering.
RefNumbers(items, kind) ==
    {items[i].number : i \in {k \in 1..Len(items) : items[k].kind = kind}}

\* C12: the numbers the references of the flat text use, the numbers the
\* cross-reference elements of the markup use and 1..N are the same set, for
\* the N footnote entries of the body.
C12_ReferencesAreOneToN ==
    body.status = "done" =>
        /\ RefNumbers(body.plain_text.items, "text_ref") = 1..Len(body.footnotes)
        /\ RefNumbers(body.epub_body.items, "noteref") = 1..Len(body.footnotes)

\* C13: an anchor of the main markup whose target did not become a footnote
\* entry is left as it was by replace_footnote_refs_with_tokens.
C13_UnresolvedAnchorUntouched ==
    body.status = "done" =>
        \A i \in 1..Len(body.anchors) :
            (~RefTarget(body.anchors[i]).some
                \/ RefTarget(body.anchors[i]).value \notin EntryIds)
              => body.html_with_markers[i] = [kind |-> "anchor", anchor |-> body.anchors[i]]

\* C14: every token replace_footnote_refs_with_tokens inserts carries the
\* number of a footnote entry, and no token is left in plain_text or in
\* epub_body.
C14_NoTokenLeft ==
    body.status = "done" =>
        /\ \A i \in 1..Len(body.html_with_markers) :
              body.html_with_markers[i].kind = "token" =>
                  \E k \in 1..Len(body.footnotes) :
                      body.footnotes[k].number = body.html_with_markers[i].number
        /\ \A i \in 1..Len(body.plain_text.items) : body.plain_text.items[i].kind # "token"
        /\ \A i \in 1..Len(body.epub_body.items) : body.epub_body.items[i].kind # "token"

\* C14 witness: tokens of two different notes were inserted, and both
\* renderers replaced them, the markup one in a body without a block element.
C14_Witness ==
    /\ body.status = "done"
    /\ ~body.block_markup
    /\ Len(body.footnotes) = 2
    /\ Len(body.html_with_markers) = 2
    /\ body.html_with_markers[1].kind = "token"
    /\ body.html_with_markers[2].kind = "token"
    /\ body.html_with_markers[1].number # body.html_with_markers[2].number
    /\ body.plain_text.items[2].kind = "text_ref"


------------------------------------------------------------------------------
(* Claims about the rendering of a post, checked under SpecRender *)

\* The entity of a reserved character.
Entity(ch) ==
    CASE ch = "&" -> <<"&", "a", "m", "p", ";">>
      [] ch = "<" -> <<"&", "l", "t", ";">>
      [] ch = ">" -> <<"&", "g", "t", ";">>
      [] ch = "\"" -> <<"&", "q", "u", "o", "t", ";">>
      [] ch = "'" -> <<"&", "a", "p", "o", "s", ";">>

\* `out` is `raw` with each of & < > " ' replaced by its entity, once.
RECURSIVE IsEscapeOf(_, _)
IsEscapeOf(out, raw) ==
    IF raw = <<>> THEN out = <<>>
    ELSE IF Head(raw) \in {"&", "<", ">", "\"", "'"}
    THEN LET e == Entity(Head(raw))
         IN /\ Len(out) >= Len(e)
            /\ SubSeq(out, 1, Len(e)) = e
            /\ IsEscapeOf(SubSeq(out, Len(e) + 1, Len(out)), Tail(raw))
    ELSE /\ out # <<>>
         /\ Head(out) = Head(raw)
         /\ IsEscapeOf(Tail(out), Tail(raw))

\* The text of a metadata field of the post, before any escaping.
FieldText(post, field) ==
    CASE field = "Title" -> post.summary.title
      [] field = "Author" -> unwrap_or(post.summary.author, UnknownName)
      [] field = "PublishedAt" -> post.summary.published_at
      [] field = "Url" -> post.summary.url
      [] field = "Tags" -> TagsText(post)
      [] field = "Subtitle" -> unwrap_or(post.summary.subtitle, NotAvailable)
      [] field = "ReadingTime" -> ReadingTimeText(post)
      [] field = "Summary" -> unwrap_or(post.summary_text, NotAvailable)

\* C17: every text of the caller written into the package document, the
\* navigation document, the cover page, the chapter head, the metadata block
\* or the footnote list (book title, author, post title, metadata values,
\* footnote texts, the media type of the cover) has each of & < > " ' replaced
\* by its entity exactly once.
C17_TextsEscapedOnce ==
    render.status = "done" =>
        LET e == render.archive.value
            post == render.post
            book_title == post.summary.title
            book_author == unwrap_or(post.summary.author, UnknownAuthor)
            chapter == e.chapter_docs[1]
        IN /\ IsEscapeOf(e.package.title, book_title)
           /\ IsEscapeOf(e.package.creator, book_author)
           /\ e.package.cover_media_type.some =>
                 IsEscapeOf(e.package.cover_media_type.value, AsChars(render.cover.media_type))
           /\ IsEscapeOf(e.navigation.title, book_title)
           /\ IsEscapeOf(e.navigation.labels[Len(e.navigation.labels)], post.summary.title)
           /\ e.cover_page.some =>
                 /\ IsEscapeOf(e.cover_page.value.title, book_title)
                 /\ IsEscapeOf(e.cover_page.value.author, book_author)
           /\ IsEscapeOf(chapter.title, post.summary.title)
           /\ IsEscapeOf(chapter.heading, post.summary.title)
           /\ \A i \in 1..Len(chapter.metadata.lines) :
                 IsEscapeOf(chapter.metadata.lines[i].value,
                            FieldText(post, chapter.metadata.lines[i].field))
           /\ Len(chapter.body.footnotes) = Len(post.plain_text.footnotes)
           /\ \A i \in 1..Len(chapter.body.footnotes) :
                 IsEscapeOf(chapter.body.footnotes[i].text, post.plain_text.footnotes[i].text)

\* The fields with a line in a metadata block.
FieldsOf(lines) == {lines[i].field : i \in 1..Len(lines)}

\* C20: for every metadata field a caller can select, the metadata block of
\* the post has a line for it in the text output exactly when it is selected,
\* and likewise in the markup output; so both outputs render the same fields.
C20_SelectedFieldsRendered ==
    render.status = "done" =>
        /\ FieldsOf(render.txt.value.metadata) = render.metadata_fields
        /\ FieldsOf(render.archive.value.chapter_docs[1].metadata.lines) = render.metadata_fields


------------------------------------------------------------------------------
(* Claims about the phases of run_export_job, checked under SpecLive. *)

PhaseRank(phase) ==
    CASE phase = "Validating" -> 1
      [] phase = "Selecting" -> 2
      [] phase = "Fetching" -> 3
      [] phase = "Rendering" -> 4
      [] phase = "Assembling" -> 5
      [] phase = "Completed" -> 6
      [] phase = "Failed" -> 6

Ended == pc \in {"Completed", "Failed"}

PostFetchesFinished == Len(succeeded) + Len(failed)

\* C22: a fetch is started only when no fetch is in flight; the fetch of the
\* k-th post of the order is started only when the fetches of the k-1 posts
\* before it have finished with success or failure and no other has started;
\* the cover fetch is started once, after the fetches of all posts have
\* finished; so at most one fetch is in flight at any time.
C22_OneFetchAtATime ==
    [][requests' # requests =>
          /\ fetch.status = "idle"
          /\ \E r \in {[kind |-> "post", target |-> ordered[i].url] : i \in {idx} \cap DOMAIN ordered}
                        \cup {[kind |-> "cover", target |-> 0]} :
                /\ requests' = Append(requests, r)
                /\ r.kind = "post" =>
                      /\ idx <= Len(ordered)
                      /\ PostFetchesFinished = idx - 1
                      /\ Len(requests) = idx - 1
                /\ r.kind = "cover" =>
                      /\ PostFetchesFinished = Len(ordered)
                      /\ Len(requests) = Len(ordered)
                      /\ ~CoverRequested]_vars

\* C22 witness: the cover fetch is in flight after two post fetches, the
\* first of which failed after its retries.
C22_Witness ==
    /\ pc = "Rendering"
    /\ fetch.status = "running"
    /\ Len(requests) = 3
    /\ requests[3].kind = "cover"
    /\ Len(failed) = 1
    /\ failed[1].post_id = ordered[1].id

------------------------------------------------------------------------------
(* Claims about extract_footnotes, checked under SpecNotes *)

\* The candidates of the call.
NoteCandidates == notes.candidates

\* The candidate holds an id or a link target equal to the target id up to
\* the case of ASCII letters.
MatchesExactly(candidate, target_id) ==
    \E id \in candidate.ids \cup candidate.href_targets :
        to_lowercase(id) = to_lowercase(target_id)

\* The candidates not used before the k-th pairing of the first loop.
UnusedBefore(k) ==
    (1..Len(NoteCandidates)) \ {notes.pairs[j].candidate_idx : j \in 1..(k - 1)}

\* C23: whenever the first loop pairs a target with a candidate and some
\* candidate not used until then matches the target exactly (up to case), the
\* candidate it is paired with matches it exactly, not only after stripping
\* the non-alphanumeric characters.
C23_ExactMatchFirst ==
    notes.status = "done" =>
        \A k \in 1..Len(notes.pairs) :
            (\E c \in UnusedBefore(k) :
                MatchesExactly(NoteCandidates[c], notes.pairs[k].target_id))
            => MatchesExactly(NoteCandidates[notes.pairs[k].candidate_idx],
                              notes.pairs[k].target_id)

\* An entry without its number.
Unnumbered(entry) == [id |-> entry.id, text |-> entry.text]

\* C24: the first loop pairs each candidate with at most one target (a
\* candidate once paired is not paired with a later target) and its entries
\* are those of its pairs, in order; when it made an entry the result is its
\* entries alone; only when it made none is the result the pairing of the
\* k-th kept target with the k-th candidate, each candidate once.
C24_CandidateUsedOnce ==
    notes.status = "done" =>
        /\ \A i, j \in 1..Len(notes.pairs) :
              i # j => notes.pairs[i].candidate_idx # notes.pairs[j].candidate_idx
        /\ [i \in 1..Len(notes.matched) |-> Unnumbered(notes.matched[i])]
              = [i \in 1..Len(notes.pairs) |->
                    [id |-> notes.pairs[i].target_id,
                     text |-> NoteCandidates[notes.pairs[i].candidate_idx].text]]
        /\ notes.matched # <<>> => notes.out = notes.matched
        /\ notes.matched = <<>> =>
              /\ Len(notes.out) <= Len(NoteCandidates)
              /\ Len(notes.out) <= Len(notes.ordered_ref_targets)
              /\ Len(notes.out) \in {Len(NoteCandidates), Len(notes.ordered_ref_targets)}
              /\ \A k \in 1..Len(notes.out) :
                    Unnumbered(notes.out[k])
                      = [id |-> notes.ordered_ref_targets[k], text |-> NoteCandidates[k].text]

\* C24 witness: two kept targets match the one candidate; the first is paired
\* with it and the second gets no entry.
C24_Witness ==
    /\ notes.status = "done"
    /\ Len(NoteCandidates) = 1
    /\ Len(notes.ordered_ref_targets) = 2
    /\ \A k \in 1..2 :
          footnote_candidate_contains_target(NoteCandidates[1], notes.ordered_ref_targets[k])
    /\ Len(notes.pairs) = 1
    /\ Len(notes.out) = 1

\* The blocks of the call that have a meaningful text and pass `keep`.
MeaningfulBlocks(keep(_)) ==
    SelectSeq(notes.blocks, LAMBDA b : keep(b) /\ is_meaningful_footnote_text(b.text))

IsFlat(b) == b.form = "flat"

IsListItem(b) == b.form = "list_item"

HasBacklink(b) == b.backlink

\* C25: the candidates of a body are those of one path alone: the flat
\* blocks when one of them gives a candidate (whatever list items and
\* back-link blocks the body also holds), otherwise the list items of the
\* footnote containers when one of them gives a candidate, otherwise the
\* blocks with a back-link marker; all candidates have the same form.
C25_OneStrategy ==
    notes.status = "done" =>
        /\ MeaningfulBlocks(IsFlat) # <<>> => notes.candidates = MeaningfulBlocks(IsFlat)
        /\ MeaningfulBlocks(IsFlat) = <<>> /\ MeaningfulBlocks(IsListItem) # <<>> =>
              notes.candidates = MeaningfulBlocks(IsListItem)
        /\ MeaningfulBlocks(IsFlat) = <<>> /\ MeaningfulBlocks(IsListItem) = <<>> =>
              notes.candidates = MeaningfulBlocks(HasBacklink)
        /\ \A i, j \in 1..Len(notes.candidates) :
              notes.candidates[i].form = notes.candidates[j].form

\* C25 witness: a body with a list item before a flat block, both with a
\* meaningful text: the flat block is the only candidate.
C25_Witness ==
    /\ notes.status = "done"
    /\ Len(notes.blocks) = 2
    /\ notes.blocks[1].form = "list_item"
    /\ is_meaningful_footnote_text(notes.blocks[1].text)
    /\ notes.blocks[2].form = "flat"
    /\ notes.candidates = <<notes.blocks[2]>>

\* The text without its border characters that are not ASCII letters or
\* digits, in lower case.
TextCore(text) == TrimNonAlphanumeric(to_lowercase(text))

\* C26: every entry extract_footnotes returns, from the first loop or from
\* the pairing by position, has the text of a candidate, and that text,
\* without its non-alphanumeric border characters, is not empty, is not made
\* of digits alone and is not a trivial back-link phrase.
C26_EntriesAreMeaningful ==
    notes.status = "done" =>
        \A entries \in {notes.matched, notes.out} :
            \A i \in 1..Len(entries) :
                /\ \E b \in Range(notes.blocks) : b.text = entries[i].text
                /\ TextCore(entries[i].text) # <<>>
                /\ \E k \in 1..Len(TextCore(entries[i].text)) :
                      TextCore(entries[i].text)[k] \notin DigitChars
                /\ TextCore(entries[i].text) \notin TrivialTexts

\* C26 witness: the block that holds the target's id has a back-link phrase
\* as its text and gives no entry; the target is paired by position with the
\* other block, whose text is meaningful.
C26_Witness ==
    /\ notes.status = "done"
    /\ Len(notes.target_ids) = 1
    /\ Len(notes.blocks) = 2
    /\ footnote_candidate_contains_target(notes.blocks[1], notes.target_ids[1])
    /\ TextCore(notes.blocks[1].text) \in TrivialTexts
    /\ notes.matched = <<>>
    /\ notes.out = <<[id |-> notes.target_ids[1], number |-> 1,
                      text |-> notes.blocks[2].text]>>

------------------------------------------------------------------------------
(* Claims about remove_footnote_containers, checked under SpecStrip *)

\* A footnote container: an opening tag of ContainerTags whose class names
\* footnote or footnotes.
IsContainerOpen(token) == token.kind = "open" /\ token.mark = "footnote"

\* The closing tag that matches the opening tag at `open` by nesting depth,
\* tag names compared as markup compares them, without regard to case; 0 when
\* the element is not closed.
RECURSIVE MatchingClose(_, _, _, _)
MatchingClose(tokens, open, depth, j) ==
    IF j > Len(tokens) THEN 0
    ELSE IF tokens[j].tag # tokens[open].tag THEN MatchingClose(tokens, open, depth, j + 1)
    ELSE IF tokens[j].kind = "open" THEN MatchingClose(tokens, open, depth + 1, j + 1)
    ELSE IF depth = 1 THEN j
    ELSE MatchingClose(tokens, open, depth - 1, j + 1)

\* Every element of the body is closed, and closed inside the element that
\* contains it.
RECURSIVE WellNested(_, _)
WellNested(tokens, open_tags) ==
    IF tokens = <<>> THEN open_tags = <<>>
    ELSE LET t == Head(tokens)
         IN CASE t.kind = "open" -> WellNested(Tail(tokens), <<t.tag>> \o open_tags)
              [] t.kind = "close" ->
                     /\ open_tags # <<>>
                     /\ Head(open_tags) = t.tag
                     /\ WellNested(Tail(tokens), Tail(open_tags))
              [] OTHER -> WellNested(Tail(tokens), open_tags)

\* The body without its footnote containers, each taken out from its opening
\* tag to its matching close.
RECURSIVE WithoutContainers(_)
WithoutContainers(tokens) ==
    LET first == FirstOf({i \in DOMAIN tokens : IsContainerOpen(tokens[i])})
    IN IF first = 0 \/ MatchingClose(tokens, first, 1, first + 1) = 0 THEN tokens
       ELSE WithoutContainers(Without(tokens, first, MatchingClose(tokens, first, 1, first + 1)))

\* C27: remove_footnote_containers returns on every body, and on a body whose
\* elements are properly nested it returns the body without its footnote
\* containers: each is removed from its opening tag to the closing tag that
\* matches it by nesting depth, with the elements nested in it and nothing
\* after its close, so that no footnote container is left.
C27_ContainersRemoved ==
    /\ <>(strip.status = "done")
    /\ [](strip.status = "done" /\ WellNested(strip.input, <<>>)
             => strip.out = WithoutContainers(strip.input))

------------------------------------------------------------------------------
(* Claims about the posts order_posts returns, checked under SpecOrder *)

\* How many positions of `posts` hold the post p.
Occurrences(posts, p) == Cardinality({i \in DOMAIN posts : posts[i] = p})

\* C28: order_posts returns a permutation of its input: every post is in the
\* output as many times as in the input, none lost and none added, in date
\* mode and in manual mode, whatever the manual list and also when posts
\* share an id.
C28_OutputIsPermutation ==
    ord.status = "done" =>
        /\ Len(ord.out) = Len(ord.posts)
        /\ \A p \in Range(ord.posts) \cup Range(ord.out) :
              Occurrences(ord.out, p) = Occurrences(ord.posts, p)

\* C29: order_posts is deterministic: the sequence a call returned is the one
\* every call on the same posts, order mode, manual list and sort direction
\* returns, whichever order the map of the unlisted posts is iterated in.
C29_SameInputSameOrder ==
    ord.status = "done" =>
        \A iteration \in Iterations(ord.posts, ord.order_mode, ord.manual_order) :
            order_posts(ord.posts, ord.order_mode, ord.manual_order,
                        ord.sort_direction, iteration) = ord.out

------------------------------------------------------------------------------
(* Claim about the files of a failed job, checked under Spec *)

\* C30: a job that ended in Failed has left no output file behind: whichever
\* error ended it, a failed write of a later file included, no file the job
\* wrote is in the output directory.
C30_FailedLeavesNoFile == pc = "Failed" => files = {}

====
